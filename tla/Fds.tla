-------------------------------- MODULE Fds ---------------------------------
(***************************************************************************)
(* The descriptors of an application under the interceptor: the range the  *)
(* daemon assigns, the counter that gives them out (fdpool.c), the table   *)
(* from a descriptor to the kernel's descriptor of its channel             *)
(* (fdchanmap.c), and socket() and close() around them (interceptor.c,     *)
(* req-resp-channel.c).                                                    *)
(*                                                                         *)
(* The threads of one process share counter and table without a lock; a    *)
(* process may fork once, and the child has copies of both and the same    *)
(* open channels.  Requests and answers are in module Rpc.  Assertions are *)
(* compiled out, as in the default Release build.                          *)
(***************************************************************************)
EXTENDS Naturals, FiniteSets

CONSTANTS Threads,   \* the threads of the parent
          Kid,       \* the thread of the child
          StartFd,   \* g_startfd, 4096
          FdCount,   \* g_fd_count, 1024
          OpenMax,   \* the kernel's descriptors are below this, RLIMIT_NOFILE
          MaxSockets \* bound: calls of socket() in a process and its child together

ASSUME FdsAssumption ==
    /\ Kid \notin Threads
    /\ StartFd \in Nat /\ FdCount \in Nat /\ OpenMax \in Nat /\ MaxSockets \in Nat
    /\ 0 < OpenMax /\ OpenMax <= StartFd

Procs == {"parent", "child"}
AllThreads == Threads \cup {Kid}
Proc(t) == IF t = Kid THEN "child" ELSE "parent"
VeloxFds == StartFd..(StartFd + FdCount - 1)
KernelFds == 0..(OpenMax - 1)

\* What a kernel descriptor stands for: nothing, the n-th socket's channel, a
\* file, or the process's own channel.
Free == 0
Chans == 1..MaxSockets
File == MaxSockets + 1
ProcChan == MaxSockets + 2

VARIABLES
    run,     \* run[p]: "none", "up", "gone"
    last,    \* last[p]: last_fd_assigned
    table,   \* table[p]: g_chan_table, 0 for none
    kfds,    \* kfds[p]: the kernel's descriptors of p
    thr,     \* thr[t]: where the thread is in socket() or close()
    app,     \* app[p]: Velox descriptors the application has open
    chans,   \* channels opened so far
    given,   \* history: given[p], the descriptors ever given out
    made,    \* history: made[p], how often one was given out
    raced,   \* history: processes whose threads met in next_avail_fd
    torn,    \* history: the fork came while another thread had a channel in hand
    overrun  \* history: processes that wrote behind g_chan_table

vars == <<run, last, table, kfds, thr, app, chans, given, made, raced, torn, overrun>>

At(at, fd, ch) == [at |-> at, fd |-> fd, ch |-> ch]
Idle == At("idle", 0, 0)

Init ==
    /\ run = [p \in Procs |-> "none"]
    /\ last = [p \in Procs |-> 0]
    /\ table = [p \in Procs |-> [fd \in VeloxFds |-> 0]]
    /\ kfds = [p \in Procs |-> [k \in KernelFds |-> IF k = 0 THEN File ELSE Free]]
    /\ thr = [t \in AllThreads |-> Idle]
    /\ app = [p \in Procs |-> {}]
    /\ chans = 0
    /\ given = [p \in Procs |-> {}]
    /\ made = [p \in Procs |-> 0]
    /\ raced = {}
    /\ torn = FALSE
    /\ overrun = {}

\* Mutant: the end of the range is taken to be in it.
is_assigned_by_velox_Closed(fd) == fd \in StartFd..(StartFd + FdCount)

is_assigned_by_velox(fd) == fd \in VeloxFds

\* A process ends: the kernel closes what it had open and its threads stop.
Ends(p) ==
    /\ run' = [run EXCEPT ![p] = "gone"]
    /\ kfds' = [kfds EXCEPT ![p] = [k \in KernelFds |-> Free]]
    /\ thr' = [t \in AllThreads |-> IF Proc(t) = p THEN Idle ELSE thr[t]]
    /\ app' = [app EXCEPT ![p] = {}]

\* The kernel gives the lowest descriptor that is free.
LowestFree(p, k) ==
    /\ kfds[p][k] = Free
    /\ \A j \in KernelFds : kfds[p][j] = Free => k <= j
-----------------------------------------------------------------------------
\* __libc_start_main: interceptor_init opens the process's channel, and
\* ask_veloxd_fd_range learns the range and clears the table.
Start ==
    /\ run["parent"] = "none"
    /\ run' = [run EXCEPT !["parent"] = "up"]
    /\ last' = [last EXCEPT !["parent"] = StartFd - 1]
    /\ \E k \in KernelFds :
          /\ LowestFree("parent", k)
          /\ kfds' = [kfds EXCEPT !["parent"][k] = ProcChan]
    /\ UNCHANGED <<table, thr, app, chans, given, made, raced, torn, overrun>>

\* socket(): next_avail_fd.  ++last_fd_assigned is a load
SocketLoads(t) ==
    /\ run[Proc(t)] = "up"
    /\ thr[t].at = "idle"
    /\ chans + Cardinality({u \in AllThreads : thr[u].at \in {"inc", "open"}}) < MaxSockets
    /\ thr' = [thr EXCEPT ![t] = At("inc", last[Proc(t)] + 1, 0)]
    /\ raced' = IF \E u \in AllThreads \ {t} : Proc(u) = Proc(t) /\ thr[u].at = "inc"
                THEN raced \cup {Proc(t)} ELSE raced
    /\ UNCHANGED <<run, last, table, kfds, app, chans, given, made, torn, overrun>>

\* Mutant: two are taken at a time.
SocketStores_Skips(t) ==
    LET p == Proc(t)
    IN  /\ run[p] = "up"
        /\ thr[t].at = "inc"
        /\ last' = [last EXCEPT ![p] = thr[t].fd + 1]
        /\ given' = [given EXCEPT ![p] = @ \cup {thr[t].fd}]
        /\ made' = [made EXCEPT ![p] = @ + 1]
        /\ thr' = [thr EXCEPT ![t] = At("open", @.fd, 0)]
        /\ UNCHANGED <<run, table, kfds, app, chans, raced, torn, overrun>>

\* Mutant: the counter is left as it was.
SocketStores_Stays(t) ==
    LET p == Proc(t)
    IN  /\ run[p] = "up"
        /\ thr[t].at = "inc"
        /\ given' = [given EXCEPT ![p] = @ \cup {thr[t].fd}]
        /\ made' = [made EXCEPT ![p] = @ + 1]
        /\ thr' = [thr EXCEPT ![t] = At("open", @.fd, 0)]
        /\ UNCHANGED <<run, last, table, kfds, app, chans, raced, torn, overrun>>

\* and a store.  The assertion on the end of the range is compiled out.
SocketStores(t) ==
    LET p == Proc(t)
    IN  /\ run[p] = "up"
        /\ thr[t].at = "inc"
        /\ last' = [last EXCEPT ![p] = thr[t].fd]
        /\ given' = [given EXCEPT ![p] = @ \cup {thr[t].fd}]
        /\ made' = [made EXCEPT ![p] = @ + 1]
        /\ thr' = [thr EXCEPT ![t] = At("open", @.fd, 0)]
        /\ UNCHANGED <<run, table, kfds, app, chans, raced, torn, overrun>>

\* Mutant: the socket uses a channel the process has open.
SocketOpens_Reuses(t, k) ==
    /\ run[Proc(t)] = "up"
    /\ thr[t].at = "open"
    /\ chans < MaxSockets
    /\ kfds[Proc(t)][k] \in Chans \/ (chans = 0 /\ LowestFree(Proc(t), k))
    /\ chans' = chans + 1
    /\ kfds' = [kfds EXCEPT ![Proc(t)][k] = chans']
    /\ thr' = [thr EXCEPT ![t] = At("set", @.fd, k)]
    /\ UNCHANGED <<run, last, table, app, given, made, raced, torn, overrun>>

\* open_chan: a channel of its own ...
SocketOpens(t, k) ==
    /\ run[Proc(t)] = "up"
    /\ thr[t].at = "open"
    /\ chans < MaxSockets
    /\ LowestFree(Proc(t), k)
    /\ chans' = chans + 1
    /\ kfds' = [kfds EXCEPT ![Proc(t)][k] = chans']
    /\ thr' = [thr EXCEPT ![t] = At("set", @.fd, k)]
    /\ UNCHANGED <<run, last, table, app, given, made, raced, torn, overrun>>

\* ... or exit, when the kernel has no descriptor left.
SocketFails(t) ==
    /\ run[Proc(t)] = "up"
    /\ thr[t].at = "open"
    /\ \A k \in KernelFds : kfds[Proc(t)][k] # Free
    /\ Ends(Proc(t))
    /\ UNCHANGED <<last, table, chans, given, made, raced, torn, overrun>>

\* set_fd_chanmap, and the daemon is asked for the socket.
SocketSets(t) ==
    LET p == Proc(t)
    IN  /\ run[p] = "up"
        /\ thr[t].at = "set"
        /\ is_assigned_by_velox(thr[t].fd)
        /\ table' = [table EXCEPT ![p][thr[t].fd] = thr[t].ch]
        /\ thr' = [thr EXCEPT ![t] = At("ask", @.fd, @.ch)]
        /\ UNCHANGED <<run, last, kfds, app, chans, given, made, raced, torn, overrun>>

\* Behind the table the write lands in the heap, which the process may or may
\* not survive.
SocketOverruns(t) ==
    LET p == Proc(t)
    IN  /\ run[p] = "up"
        /\ thr[t].at = "set"
        /\ ~is_assigned_by_velox(thr[t].fd)
        /\ overrun' = overrun \cup {p}
        /\ \/ Ends(p)
           \/ /\ thr' = [thr EXCEPT ![t] = At("ask", @.fd, @.ch)]
              /\ UNCHANGED <<run, kfds, app>>
        /\ UNCHANGED <<last, table, chans, given, made, raced, torn>>

\* The answer, which is always yes, and socket() returns the descriptor; one
\* behind the range is not Velox's when the application uses it.
SocketReturns(t) ==
    LET p == Proc(t)
    IN  /\ run[p] = "up"
        /\ thr[t].at = "ask"
        /\ app' = [app EXCEPT ![p] =
                      IF is_assigned_by_velox(thr[t].fd) THEN @ \cup {thr[t].fd} ELSE @]
        /\ thr' = [thr EXCEPT ![t] = Idle]
        /\ UNCHANGED <<run, last, table, kfds, chans, given, made, raced, torn, overrun>>

\* Mutant: unset_fd_chanmap comes before fd_chanmap is read.
CloseUnsets_Early(t, fd) ==
    LET p == Proc(t)
    IN  /\ run[p] = "up"
        /\ thr[t].at = "idle"
        /\ fd \in app[p]
        /\ app' = [app EXCEPT ![p] = @ \ {fd}]
        /\ thr' = [thr EXCEPT ![t] = At("close", fd, 0)]
        /\ table' = [table EXCEPT ![p][fd] = 0]
        /\ UNCHANGED <<run, last, kfds, chans, given, made, raced, torn, overrun>>

\* close(): the request was answered; unset_fd_chanmap,
CloseUnsets(t, fd) ==
    LET p == Proc(t)
    IN  /\ run[p] = "up"
        /\ thr[t].at = "idle"
        /\ fd \in app[p]
        /\ app' = [app EXCEPT ![p] = @ \ {fd}]
        /\ thr' = [thr EXCEPT ![t] = At("close", fd, table[p][fd])]
        /\ table' = [table EXCEPT ![p][fd] = 0]
        /\ UNCHANGED <<run, last, kfds, chans, given, made, raced, torn, overrun>>

\* then close_chan, which goes through close() again and on to the kernel's.
CloseChan(t) ==
    LET p == Proc(t)
    IN  /\ run[p] = "up"
        /\ thr[t].at = "close"
        /\ kfds' = [kfds EXCEPT ![p][thr[t].ch] = Free]
        /\ thr' = [thr EXCEPT ![t] = Idle]
        /\ UNCHANGED <<run, last, table, app, chans, given, made, raced, torn, overrun>>

\* open() and close() of something that is not Velox's, one at a time besides
\* the standard input.
OpensFile(t, k) ==
    /\ run[Proc(t)] = "up"
    /\ thr[t].at = "idle"
    /\ LowestFree(Proc(t), k)
    /\ \A j \in KernelFds \ {0} : kfds[Proc(t)][j] # File
    /\ kfds' = [kfds EXCEPT ![Proc(t)][k] = File]
    /\ UNCHANGED <<run, last, table, thr, app, chans, given, made, raced, torn, overrun>>

ClosesFile(t, k) ==
    /\ run[Proc(t)] = "up"
    /\ thr[t].at = "idle"
    /\ k # 0 /\ kfds[Proc(t)][k] = File
    /\ ~is_assigned_by_velox(k)
    /\ kfds' = [kfds EXCEPT ![Proc(t)][k] = Free]
    /\ UNCHANGED <<run, last, table, thr, app, chans, given, made, raced, torn, overrun>>

\* fork(), which the interceptor does not see: the child has a copy of the
\* memory and of the descriptors, and only the thread that called.
Fork(t) ==
    /\ t # Kid
    /\ run = [p \in Procs |-> IF p = "parent" THEN "up" ELSE "none"]
    /\ thr[t].at = "idle"
    /\ run' = [run EXCEPT !["child"] = "up"]
    /\ last' = [last EXCEPT !["child"] = last["parent"]]
    /\ table' = [table EXCEPT !["child"] = table["parent"]]
    /\ kfds' = [kfds EXCEPT !["child"] = kfds["parent"]]
    /\ app' = [app EXCEPT !["child"] = app["parent"]]
    /\ given' = [given EXCEPT !["child"] = given["parent"]]
    /\ made' = [made EXCEPT !["child"] = made["parent"]]
    /\ raced' = IF "parent" \in raced THEN Procs ELSE raced
    /\ overrun' = IF "parent" \in overrun THEN Procs ELSE overrun
    /\ torn' = \E u \in Threads \ {t} : thr[u].at \in {"set", "ask", "close"}
    /\ UNCHANGED <<thr, chans>>
-----------------------------------------------------------------------------
Next ==
    \/ Start
    \/ \E t \in AllThreads :
          \/ SocketLoads(t) \/ SocketStores(t) \/ SocketFails(t) \/ SocketSets(t)
          \/ SocketOverruns(t) \/ SocketReturns(t) \/ CloseChan(t) \/ Fork(t)
          \/ \E fd \in VeloxFds : CloseUnsets(t, fd)
          \/ \E k \in KernelFds : SocketOpens(t, k) \/ OpensFile(t, k) \/ ClosesFile(t, k)

Spec == Init /\ [][Next]_vars
-----------------------------------------------------------------------------
(* Properties.                                                             *)

\* Every variable keeps its type; the table maps every descriptor of the range,
\* open or not, to a descriptor of the kernel.
TypeOK ==
    /\ run \in [Procs -> {"none", "up", "gone"}]
    /\ last \in [Procs -> Nat]
    /\ table \in [Procs -> [VeloxFds -> KernelFds]]
    /\ kfds \in [Procs -> [KernelFds -> Free..ProcChan]]
    /\ thr \in [AllThreads -> [at : {"idle", "inc", "open", "set", "ask", "close"},
                               fd : Nat, ch : KernelFds]]
    /\ app \in [Procs -> SUBSET VeloxFds]
    /\ chans \in 0..MaxSockets
    /\ given \in [Procs -> SUBSET Nat]
    /\ made \in [Procs -> Nat]
    /\ raced \in SUBSET Procs
    /\ torn \in BOOLEAN
    /\ overrun \in SUBSET Procs

\* next_avail_fd never gives a descriptor twice, in a process whose threads do
\* not meet in it: one that was closed does not come to mean another socket.
GivenOnce ==
    \A p \in Procs \ raced : made[p] = Cardinality(given[p])

\* The end of the range, and of g_chan_table behind it, is reached only by more
\* than FdCount calls of socket(): lost updates do not bring it nearer, nor a
\* fork.  This is the assertion in next_avail_fd, as far as it holds.
OverrunNeedsExhaustion ==
    \A p \in overrun : made[p] > FdCount

\* A descriptor the application has open is mapped to an open channel that no
\* other one of its descriptors is mapped to, whatever its threads and the
\* process it was forked from have closed since.
MapIsExact ==
    \A p \in Procs \ raced : run[p] = "up" =>
        \A fd \in app[p] :
            /\ kfds[p][table[p][fd]] \in Chans
            /\ \A other \in app[p] \ {fd} :
                  kfds[p][table[p][fd]] # kfds[p][table[p][other]]

\* Every open channel can be closed: it is in the table or in the hands of a
\* thread inside socket() or close().  A process loses one only by a race in
\* next_avail_fd, behind the end of the range, or by a fork in the middle of
\* another thread's call; the daemon then keeps its socket until the process
\* ends.
NoChannelLost ==
    \A p \in Procs \ (raced \cup overrun) :
        run[p] = "up" /\ (p = "child" => ~torn) =>
            \A k \in KernelFds : kfds[p][k] \in Chans =>
                \/ \E fd \in app[p] : table[p][fd] = k
                \/ \E t \in AllThreads :
                      Proc(t) = p /\ thr[t].at \in {"set", "ask", "close"} /\ thr[t].ch = k
=============================================================================
