--------------------------- MODULE ReactorProofs ----------------------------
(***************************************************************************)
(* Proofs about module Reactor, for any set of sockets and any bounds.     *)
(***************************************************************************)
EXTENDS Reactor, TLAPS

\* Where the IP thread stands and what it has in its hands.
IpShape ==
    /\ ip.at # "idle" => ip.c \in Socks
    /\ ip.at = "idle" => ip.c = NoSock
    /\ ip.at \in {"idle", "destroy"} => ip.holds = {}
    /\ ip.at \in {"found", "put"} => queued[ip.c] < MaxQueued
    /\ ip.at = "found" => conn[ip.c] # "none"
    /\ ip.at = "destroy" <=> doomed # <<>>
    /\ torn => raced

\* Only the handle the IP thread is removing is between the halves of
\* removeChannel.
ErasingShape ==
    erasing # {} =>
        \/ ip.at = "unregister" /\ erasing = {<<ip.c, "estab">>}
        \/ ip.at = "answer" /\ erasing = {<<ip.c, "chan">>} /\ client[ip.c] \in Gone
        \/ ip.at = "destroy" /\ erasing = {Head(doomed)}

\* A socket that is not listed has gone, or was never there.
Accepted ==
    \A c \in Socks : \/ c \in listed
                     \/ client[c] \in Gone /\ req[c] = "none"
                     \/ ip.c # c /\ \A k \in Kinds : <<c, k>> \notin live

\* What poll reported of a channel stays so until it is dispatched.
BatchReady ==
    \A c \in Socks : <<c, "chan">> \in batch => req[c] # "none" \/ client[c] \in Gone

\* A handle that epoll has or that was reported dies only when its client has
\* gone.
DeadIsClosed ==
    \A h \in (epoll \cup batch) \ live : h = Listener \/ client[h[1]] \in Gone

\* A living handle belongs to a listed channel or to the packet that the IP
\* thread delivers.
Kept ==
    \A h \in live : \/ h[1] \in listed
                    \/ ip.at \notin {"idle", "destroy"} /\ h[1] = ip.c

CrashCause ==
    daemon = "crashed" => raced \/ \E c \in Socks : client[c] \in Gone

\* The IP thread has the answer to connect() of c.
Answering(c) == ip.c = c /\ ip.at \in {"unregister", "answer"}

\* A call of c is in one place at a time, and its client waits for it or has died.
TalkOf(c) ==
    /\ c \in inCall => client[c] = "open"
    /\ c \in reset => client[c] = "dead"
    /\ req[c] # "none" \/ c \in waiting \/ conn[c] = "SYN_SENT" \/ Answering(c)
          => c \in inCall \/ client[c] = "dead"
    /\ req[c] # "none" => c \notin waiting /\ conn[c] # "SYN_SENT" /\ ~Answering(c)
    /\ c \in waiting => conn[c] # "SYN_SENT" /\ ~Answering(c)
    /\ Answering(c) => conn[c] # "SYN_SENT"
    /\ blocked = c => c \in waiting /\ c \in listed

\* So a write that fails is to a client that died in its call.
Talk == \A c \in Socks : TalkOf(c)

\* A listed channel has its handle registered, unless the client died in a call.
Watched ==
    \A c \in listed : <<c, "chan">> \in owned \/ client[c] = "dead"

\* What the IP thread destroys belongs to one socket, that the list has given up.
Doomed ==
    ip.at = "destroy" => ip.c \notin listed /\ Range(doomed) \subseteq Of(ip.c)

Base ==
    /\ TypeOK /\ IpShape /\ ErasingShape /\ RegistryExact
    /\ Accepted /\ BatchReady /\ DeadIsClosed /\ Kept /\ CrashCause

IInv == Base /\ Talk /\ Watched /\ Doomed
-----------------------------------------------------------------------------
\* The loop thread's updates keep the registry exact, unless they meet the IP
\* thread's.
LEMMA Updating ==
    ASSUME Base, NEW made \in SUBSET Handles, NEW dropped \in SUBSET owned,
           UpdateRegistry(made, dropped), UNCHANGED ipVars
    PROVE  /\ live' = live \cup made /\ owned' = (owned \cup made) \ dropped
           /\ channels' \subseteq channels \cup made /\ epoll' \subseteq epoll \cup made
           /\ torn' \in BOOLEAN /\ raced' \in BOOLEAN /\ (torn' => raced')
           /\ RegistryExact'
<1>1. /\ torn \in BOOLEAN /\ raced \in BOOLEAN /\ (torn => raced) /\ RegistryExact
      BY Zenon DEF Base, TypeOK, IpShape
<1>2. /\ live' = live \cup made /\ owned' = (owned \cup made) \ dropped
      /\ channels' = (channels \cup made) \ dropped
      /\ epoll' = (epoll \cup made) \ (dropped \cap channels)
      /\ UNCHANGED <<doomed, erasing>>
      BY Zenon DEF UpdateRegistry, PollerAdds, ipVars
<1>3. /\ torn' \in BOOLEAN /\ raced' \in BOOLEAN /\ (torn' => raced')
      /\ ~raced' => ~raced /\ (made \cup dropped = {} \/ erasing = {})
      BY <1>1, Zenon DEF UpdateRegistry, LoopUsesRegistry
<1>4. RegistryExact'
      <2>1. SUFFICES ASSUME ~raced'
                     PROVE  /\ channels' = owned' /\ epoll' = owned' \ erasing
                            /\ owned' \subseteq live' \cup Range(doomed)
            BY <1>2, Zenon DEF RegistryExact
      <2>2. /\ channels = owned /\ epoll = owned \ erasing
            /\ owned \subseteq live \cup Range(doomed)
            BY <1>1, <1>3, <2>1, Zenon DEF RegistryExact
      <2>3. QED BY <1>2, <1>3, <2>1, <2>2
<1>5. QED BY <1>2, <1>3, <1>4, Zenon

\* unregisterSelf on the loop thread.
LEMMA Unregistering ==
    ASSUME Base, NEW dropped \in SUBSET owned, UpdateRegistry({}, dropped), UNCHANGED ipVars
    PROVE  /\ live' = live /\ owned' \subseteq owned
           /\ channels' \subseteq channels /\ epoll' \subseteq epoll
           /\ torn' \in BOOLEAN /\ raced' \in BOOLEAN /\ (torn' => raced')
           /\ RegistryExact'
<1>1. {} \in SUBSET Handles
      BY Zenon
<1>2. /\ live' = live \cup {} /\ owned' = (owned \cup {}) \ dropped
      /\ channels' \subseteq channels \cup {} /\ epoll' \subseteq epoll \cup {}
      /\ torn' \in BOOLEAN /\ raced' \in BOOLEAN /\ (torn' => raced')
      /\ RegistryExact'
      BY <1>1, Updating
<1>3. live \cup {} = live /\ owned' \subseteq owned
      BY <1>2, Zenon
<1>4. QED BY <1>2, <1>3, Zenon

\* A step that leaves alone the list and the IP thread's part, at most takes
\* handles out of the registry, and neither ends the daemon nor takes back a
\* request or a close that was reported.
Quiet ==
    /\ UNCHANGED <<listed, ipVars>>
    /\ \E dropped \in SUBSET owned : UpdateRegistry({}, dropped)
    /\ batch' \subseteq batch
    /\ daemon' # "crashed"
    /\ \A c \in Socks :
          /\ client[c] \in Gone => client'[c] \in Gone /\ (req[c] = "none" => req'[c] = "none")
          /\ <<c, "chan">> \in batch' /\ req[c] # "none" => req'[c] # "none"
          /\ conn[c] # "none" => conn'[c] # "none"
          /\ queued'[c] <= queued[c]

LEMMA NothingDropped ==
    ASSUME UNCHANGED registry
    PROVE  \E dropped \in SUBSET owned : UpdateRegistry({}, dropped)
<1>1. {} \in SUBSET owned /\ UpdateRegistry({}, {})
      BY Zenon DEF UpdateRegistry, PollerAdds, registry
<1>2. QED BY <1>1, Zenon

LEMMA WriteDropsOwned ==
    ASSUME NEW c
    PROVE  WriteDrops(c) \in SUBSET owned
BY Zenon DEF WriteDrops

LEMMA QuietTypes ==
    ASSUME Base, Quiet
    PROVE  /\ UNCHANGED <<listed, live, ip, doomed, erasing>>
           /\ owned' \in SUBSET Handles /\ channels' \in SUBSET Handles
           /\ epoll' \in SUBSET Handles /\ torn' \in BOOLEAN /\ raced' \in BOOLEAN
<1>1. PICK dropped \in SUBSET owned : UpdateRegistry({}, dropped)
      BY Zenon DEF Quiet
<1>2. /\ live' = live /\ owned' \subseteq owned /\ channels' \subseteq channels
      /\ epoll' \subseteq epoll /\ torn' \in BOOLEAN /\ raced' \in BOOLEAN
      BY <1>1, Unregistering, Zenon DEF Quiet
<1>3. QED BY <1>2, Zenon DEF Base, TypeOK, Quiet, ipVars

LEMMA QuietKeeps ==
    ASSUME Base, Quiet, TypeOK'
    PROVE  Base'
<1>0. PICK dropped \in SUBSET owned : UpdateRegistry({}, dropped)
      BY Zenon DEF Quiet
<1>1. /\ live' = live /\ epoll' \subseteq epoll /\ (torn' => raced') /\ RegistryExact'
      /\ UNCHANGED <<listed, ip, doomed, erasing>>
      BY <1>0, Unregistering, Zenon DEF Quiet, ipVars
<1>2. IpShape'
      <2>1. ASSUME ip.at \in {"found", "put"} PROVE queued'[ip.c] < MaxQueued
            <3>1. /\ ip.c \in Socks /\ queued[ip.c] < MaxQueued
                  /\ queued[ip.c] \in Nat /\ queued'[ip.c] \in Nat /\ MaxQueued \in Nat
                  BY <2>1, ReactorAssumption DEF Base, TypeOK, IpShape
            <3>2. queued'[ip.c] <= queued[ip.c]
                  BY <3>1, Zenon DEF Quiet
            <3>3. QED BY <3>1, <3>2
      <2>2. QED BY <1>1, <2>1, Zenon DEF Base, IpShape, Quiet
<1>3. ErasingShape'
      BY <1>1, Zenon DEF Base, ErasingShape, IpShape, Quiet
<1>4. Kept' /\ Accepted'
      BY <1>1, Zenon DEF Base, Kept, Accepted, Quiet
<1>5. BatchReady'
      BY Zenon DEF Base, BatchReady, Quiet
<1>6. DeadIsClosed'
      <2>1. SUFFICES ASSUME NEW h \in (epoll \cup batch) \ live, h # Listener
                     PROVE  client'[h[1]] \in Gone
            BY <1>1, Zenon DEF DeadIsClosed, Quiet
      <2>2. h[1] \in Socks
            BY <2>1 DEF Base, TypeOK, Handles
      <2>3. QED BY <2>1, <2>2, Zenon DEF Base, DeadIsClosed, Quiet
<1>7. CrashCause'
      BY Zenon DEF CrashCause, Quiet
<1>8. QED BY <1>1, <1>2, <1>3, <1>4, <1>5, <1>6, <1>7, Zenon DEF Base

\* The steps of the clients are such steps.
LEMMA ClientSteps ==
    ASSUME Base, NEW c \in Socks,
           \/ Opens(c) \/ Closes(c) \/ \E unread \in BOOLEAN : Dies(c, unread)
           \/ \E r \in {"connect", "sendto", "recvfrom"} : Calls(c, r)
    PROVE  Base'
<1>1. TypeOK /\ \A d \in Socks : queued[d] <= queued[d]
      <2>1. \A d \in Socks : queued[d] \in Nat
            BY ReactorAssumption DEF Base, TypeOK
      <2>2. \A d \in Socks : queued[d] <= queued[d]
            BY <2>1
      <2>3. QED BY <2>2, Zenon DEF Base
<1>2. /\ \E v \in {"open", "closed", "dead"} :
             client' = client \/ client' = [client EXCEPT ![c] = v]
      /\ client[c] \in Gone => client' = client /\ req' = req
      /\ inCall' \in {inCall, inCall \cup {c}, inCall \ {c}}
      /\ reset' \in {reset, reset \cup {c}}
      /\ \/ req' = req
         \/ \E r \in {"socket", "connect", "sendto", "recvfrom"} :
               req' = [req EXCEPT ![c] = r]
      BY Zenon DEF Opens, Calls, Closes, Dies, Gone
<1>3. daemon = "up" /\ UNCHANGED <<listed, soVars, registry, ipVars, loopVars, daemon>>
      BY Zenon DEF Opens, Calls, Closes, Dies
<1>4. /\ client' \in [Socks -> {"none", "open"} \cup Gone]
      /\ \A d \in Socks : client[d] \in Gone => client'[d] \in Gone
      <2>1. client \in [Socks -> {"none", "open"} \cup Gone]
            BY <1>1, Zenon DEF TypeOK
      <2>2. PICK v \in {"open", "closed", "dead"} :
                client' = client \/ client' = [client EXCEPT ![c] = v]
            BY <1>2, Zenon
      <2>3. v \in {"none", "open"} \cup Gone
            BY <2>2, Zenon DEF Gone
      <2>4. QED BY <1>2, <2>1, <2>2, <2>3, Zenon
<1>5. /\ req' \in [Socks -> {"none", "socket", "connect", "sendto", "recvfrom"}]
      /\ \A d \in Socks : /\ req[d] # "none" => req'[d] # "none"
                          /\ client[d] \in Gone => req'[d] = req[d]
      <2>1. req \in [Socks -> {"none", "socket", "connect", "sendto", "recvfrom"}]
            BY <1>1, Zenon DEF TypeOK
      <2>2. CASE req' = req
            BY <2>1, <2>2, Zenon
      <2>3. ASSUME NEW r \in {"socket", "connect", "sendto", "recvfrom"},
                   req' = [req EXCEPT ![c] = r]
            PROVE  /\ req' \in [Socks -> {"none", "socket", "connect", "sendto", "recvfrom"}]
                   /\ \A d \in Socks : /\ req[d] # "none" => req'[d] # "none"
                                       /\ client[d] \in Gone => req'[d] = req[d]
            <3>1. client[c] \in Gone => req' = req
                  BY <1>2, Zenon
            <3>2. QED BY <2>1, <2>3, <3>1, Zenon
      <2>4. QED BY <1>2, <2>2, <2>3, Zenon
<1>6. TypeOK'
      BY <1>1, <1>2, <1>3, <1>4, <1>5, Zenon DEF TypeOK, soVars, registry, ipVars, loopVars
<1>7. Quiet
      <2>1. \E dropped \in SUBSET owned : UpdateRegistry({}, dropped)
            BY <1>3, NothingDropped, Zenon
      <2>2. daemon' # "crashed" /\ UNCHANGED <<listed, ipVars, conn, queued, batch>>
            BY <1>3, Zenon DEF soVars, loopVars
      <2>3. QED BY <1>1, <1>4, <1>5, <2>1, <2>2, Zenon DEF Quiet
<1>8. QED BY <1>6, <1>7, QuietKeeps, Zenon

\* So are the steps of the request handlers, of the failed read and of the
\* notification callback.
LEMMA QuietSteps ==
    ASSUME Base, NEW c \in Socks,
           \/ ConnectCall(c) \/ SendtoCall(c) \/ RecvfromCall(c) \/ ReadFails(c)
           \/ SChannelReadCb(c) \/ TakeFromRecvQ(c)
    PROVE  Base'
<1>1. /\ \A d \in Socks : queued[d] \in Nat /\ queued[d] \in 0..MaxQueued
      /\ MaxQueued \in Nat /\ TypeOK
      BY ReactorAssumption DEF Base, TypeOK
<1>2. /\ req' \in {req, [req EXCEPT ![c] = "none"]}
      /\ req' # req => batch' = batch \ {<<c, "chan">>}
      /\ batch' \subseteq batch
      /\ conn' \in {[conn EXCEPT ![c] = "SYN_SENT"], [conn EXCEPT ![c] = "bound"], conn}
      /\ inCall' \in {inCall, inCall \ {c}} /\ reset' \in {reset, reset \ {c}}
      /\ waiting' \in {waiting, waiting \cup {c}, waiting \ {c}}
      /\ piped' \in {piped, piped \ {c}} /\ blocked' \in {blocked, c, NoSock}
      BY Zenon DEF ConnectCall, SendtoCall, RecvfromCall, ReadFails, SChannelReadCb,
         TakeFromRecvQ, OnRequest, Dispatch, clientVars, soVars
<1>3. daemon = "up" /\ UNCHANGED <<client, listed, ipVars, daemon>>
      BY Zenon DEF ConnectCall, SendtoCall, RecvfromCall, ReadFails, SChannelReadCb,
         TakeFromRecvQ, OnRequest, Dispatch, Idle, clientVars
<1>4. \E dropped \in SUBSET owned : UpdateRegistry({}, dropped)
      BY WriteDropsOwned, NothingDropped, Zenon DEF ConnectCall, SendtoCall, RecvfromCall,
         ReadFails, SChannelReadCb, TakeFromRecvQ, OnRequest
<1>5. \/ queued' = queued
      \/ queued[c] > 0 /\ queued' = [queued EXCEPT ![c] = queued[c] - 1]
      BY Zenon DEF ConnectCall, SendtoCall, RecvfromCall, ReadFails, SChannelReadCb,
         TakeFromRecvQ, soVars
<1>6. queued' \in [Socks -> 0..MaxQueued] /\ \A d \in Socks : queued'[d] <= queued[d]
      <2>1. queued[c] > 0 => queued[c] - 1 \in 0..MaxQueued /\ queued[c] - 1 <= queued[c]
            BY <1>1
      <2>2. queued \in [Socks -> 0..MaxQueued] /\ \A d \in Socks : queued[d] <= queued[d]
            BY <1>1 DEF TypeOK
      <2>3. QED BY <1>5, <2>1, <2>2, Zenon
<1>7. req' \in [Socks -> {"none", "socket", "connect", "sendto", "recvfrom"}]
      BY <1>1, <1>2, Zenon DEF TypeOK
<1>8. conn' \in [Socks -> {"none", "new", "SYN_SENT", "bound"}]
      BY <1>1, <1>2, Zenon DEF TypeOK
<1>9. Quiet
      <2>1. ASSUME NEW d \in Socks
            PROVE  /\ req[d] = "none" => req'[d] = "none"
                   /\ <<d, "chan">> \in batch' /\ req[d] # "none" => req'[d] # "none"
            <3>1. req \in [Socks -> {"none", "socket", "connect", "sendto", "recvfrom"}]
                  BY <1>1, Zenon DEF TypeOK
            <3>2. CASE req' = req
                  BY <3>2, Zenon
            <3>3. CASE req' # req
                  BY <1>2, <3>1, <3>3
            <3>4. QED BY <3>2, <3>3, Zenon
      <2>2. ASSUME NEW d \in Socks, conn[d] # "none" PROVE conn'[d] # "none"
            BY <1>1, <1>2, <2>2, Zenon DEF TypeOK
      <2>3. QED BY <1>2, <1>3, <1>4, <1>6, <2>1, <2>2, Zenon DEF Quiet
<1>10. TypeOK'
      <2>1. /\ UNCHANGED <<listed, live, ip, doomed, erasing>>
            /\ owned' \in SUBSET Handles /\ channels' \in SUBSET Handles
            /\ epoll' \in SUBSET Handles /\ torn' \in BOOLEAN /\ raced' \in BOOLEAN
            BY <1>9, QuietTypes, Zenon
      <2>2. /\ inCall' \in SUBSET Socks /\ reset' \in SUBSET Socks /\ waiting' \in SUBSET Socks
            /\ piped' \in SUBSET Socks /\ blocked' \in Socks \cup {NoSock}
            /\ batch' \in SUBSET (Handles \cup {Listener})
            BY <1>1, <1>2, Zenon DEF TypeOK
      <2>3. QED BY <1>1, <1>3, <1>6, <1>7, <1>8, <2>1, <2>2, Zenon DEF TypeOK
<1>11. QED BY <1>9, <1>10, QuietKeeps, Zenon

LEMMA IdleSteps ==
    ASSUME Base, PollFails \/ UNCHANGED vars
    PROVE  Base'
<1>1. /\ UNCHANGED <<client, req, inCall, reset, listed, conn, waiting, queued, piped, live, owned,
                     channels, epoll, torn, raced, ip, doomed, erasing, batch, blocked>>
      /\ daemon' \in {daemon, "up", "interrupted"}
      BY Zenon DEF PollFails, vars, clientVars, soVars, registry, ipVars, loopVars
<1>2. TypeOK'
      BY <1>1, Zenon DEF Base, TypeOK
<1>3. IpShape' /\ ErasingShape' /\ RegistryExact'
      BY <1>1, Zenon DEF Base, IpShape, ErasingShape, RegistryExact
<1>4. Accepted' /\ BatchReady' /\ DeadIsClosed' /\ Kept' /\ CrashCause'
      BY <1>1, Zenon DEF Base, Accepted, BatchReady, DeadIsClosed, Kept, CrashCause
<1>5. QED BY <1>2, <1>3, <1>4, Zenon DEF Base

\* The IP thread takes a session only of a listed channel.
LEMMA IpFindsKeeps ==
    ASSUME Base, NEW c \in Socks, IpFinds(c)
    PROVE  Base'
<1>1. TypeOK'
      BY ReactorAssumption, Zenon DEF Base, TypeOK, IpShape, IpAt, Handles, Kinds, IpFinds, Ip,
         PcbAlive, SoAlive, ChanAlive, clientVars, soVars, registry, ipVars, loopVars
<1>2. IpShape'
      BY ReactorAssumption, Zenon DEF Base, IpShape, TypeOK, IpFinds, Ip, PcbAlive, SoAlive,
         ChanAlive, clientVars, soVars, registry, ipVars, loopVars
<1>3. ErasingShape'
      BY ReactorAssumption, Zenon DEF Base, ErasingShape, IpShape, IpFinds, Ip, PcbAlive,
         SoAlive, ChanAlive, clientVars, soVars, registry, ipVars, loopVars
<1>4. Accepted'
      BY ReactorAssumption DEF Base, Accepted, IpShape, TypeOK, IpFinds, Ip, PcbAlive,
         SoAlive, ChanAlive, clientVars, soVars, registry, ipVars, loopVars
<1>5. Kept'
      BY ReactorAssumption, Zenon DEF Base, Kept, IpShape, IpFinds, Ip, PcbAlive, SoAlive,
         ChanAlive, clientVars, soVars, registry, ipVars, loopVars
<1>6. RegistryExact' /\ BatchReady' /\ DeadIsClosed' /\ CrashCause'
      BY Zenon DEF Base, RegistryExact, BatchReady, DeadIsClosed, CrashCause, IpFinds, Ip,
         PcbAlive, SoAlive, ChanAlive, clientVars, soVars, registry, ipVars, loopVars
<1>7. QED BY <1>1, <1>2, <1>3, <1>4, <1>5, <1>6, Zenon DEF Base

LEMMA IpEstabKeeps ==
    ASSUME Base, NEW c \in Socks, IpEstab(c)
    PROVE  Base'
<1>1. TypeOK'
      BY ReactorAssumption DEF Base, TypeOK, IpShape, IpAt, Handles, Kinds, IpEstab, Ip,
         PcbAlive, SoAlive, ChanAlive, clientVars, soVars, registry, ipVars, loopVars
<1>2. IpShape'
      BY ReactorAssumption DEF Base, IpShape, TypeOK, IpEstab, Ip, PcbAlive, SoAlive,
         ChanAlive, clientVars, soVars, registry, ipVars, loopVars
<1>3. ErasingShape'
      BY ReactorAssumption, Zenon DEF Base, ErasingShape, IpShape, IpEstab, Ip, PcbAlive,
         SoAlive, ChanAlive, clientVars, soVars, registry, ipVars, loopVars
<1>4. Accepted'
      BY ReactorAssumption DEF Base, Accepted, IpShape, TypeOK, IpEstab, Ip, PcbAlive,
         SoAlive, ChanAlive, clientVars, soVars, registry, ipVars, loopVars
<1>5. Kept'
      BY ReactorAssumption, Zenon DEF Base, Kept, IpShape, IpEstab, Ip, PcbAlive, SoAlive,
         ChanAlive, clientVars, soVars, registry, ipVars, loopVars
<1>6. RegistryExact' /\ BatchReady' /\ DeadIsClosed' /\ CrashCause'
      BY Zenon DEF Base, RegistryExact, BatchReady, DeadIsClosed, CrashCause, IpEstab, Ip,
         PcbAlive, SoAlive, ChanAlive, clientVars, soVars, registry, ipVars, loopVars
<1>7. QED BY <1>1, <1>2, <1>3, <1>4, <1>5, <1>6, Zenon DEF Base

\* What poll reports is registered with epoll, and so alive or closed.
LEMMA PollKeeps ==
    ASSUME Base, NEW hs \in SUBSET Ready, Poll(hs)
    PROVE  Base'
<1>1. TypeOK'
      BY ReactorAssumption, Zenon DEF Base, TypeOK, IpShape, IpAt, Handles, Kinds, Poll, Idle,
         Ready, UseOfFreed, clientVars, soVars, registry, ipVars, loopVars
<1>2. BatchReady'
      <2>1. \A c \in Socks : <<c, "chan">> # Listener
            BY Zenon DEF Listener
      <2>2. \A c \in Socks : <<c, "chan">> \in hs => Readable(<<c, "chan">>)
            BY Zenon DEF Ready
      <2>3. QED BY <2>1, <2>2, Zenon DEF BatchReady, Readable, Poll, clientVars
<1>3. DeadIsClosed'
      BY ReactorAssumption, Zenon DEF Base, DeadIsClosed, TypeOK, Poll, Idle, Ready,
         UseOfFreed, clientVars, soVars, registry, ipVars, loopVars
<1>4. CrashCause'
      <2>1. ASSUME ~(hs \subseteq live \cup {Listener})
            PROVE  \E c \in Socks : client[c] \in Gone
            <3>1. PICK h \in hs : h \notin live /\ h # Listener
                  BY <2>1, Zenon
            <3>2. h \in epoll /\ h[1] \in Socks
                  BY <3>1 DEF Base, TypeOK, Ready, Handles
            <3>3. QED BY <3>1, <3>2, Zenon DEF Base, DeadIsClosed
      <2>2. QED BY <2>1, Zenon DEF Base, CrashCause, Poll, Idle, UseOfFreed, clientVars, registry
<1>5. IpShape' /\ ErasingShape' /\ RegistryExact' /\ Accepted' /\ Kept'
      BY Zenon DEF Base, IpShape, ErasingShape, RegistryExact, Accepted, Kept, Poll, Idle,
         Ready, UseOfFreed, clientVars, soVars, registry, ipVars, loopVars
<1>6. QED BY <1>1, <1>2, <1>3, <1>4, <1>5, Zenon DEF Base

\* The handles the event loop makes are new, alive and registered.
LEMMA OnNewConnectionsKeeps ==
    ASSUME Base, OnNewConnections
    PROVE  Base'
<1>1. TypeOK'
      BY ReactorAssumption, Zenon DEF Base, TypeOK, IpShape, IpAt, Handles, Kinds,
         OnNewConnections, Dispatch, Idle, UpdateRegistry, PollerAdds, LoopUsesRegistry,
         Backlog, clientVars, soVars, registry, ipVars, loopVars
<1>2. IpShape'
      BY ReactorAssumption, Zenon DEF Base, IpShape, TypeOK, OnNewConnections, Dispatch, Idle,
         UpdateRegistry, PollerAdds, LoopUsesRegistry, Backlog, clientVars, soVars,
         registry, ipVars, loopVars
<1>3. RegistryExact'
      BY ReactorAssumption, Zenon DEF Base, RegistryExact, ErasingShape, OnNewConnections,
         Dispatch, Idle, UpdateRegistry, PollerAdds, LoopUsesRegistry, Backlog, clientVars,
         soVars, registry, ipVars, loopVars
<1>4. Accepted'
      BY ReactorAssumption, Zenon DEF Base, Accepted, IpShape, TypeOK, OnNewConnections,
         Dispatch, Idle, UpdateRegistry, PollerAdds, LoopUsesRegistry, Backlog, clientVars,
         soVars, registry, ipVars, loopVars
<1>5. BatchReady'
      BY ReactorAssumption, Zenon DEF Base, BatchReady, TypeOK, OnNewConnections, Dispatch,
         Idle, UpdateRegistry, PollerAdds, LoopUsesRegistry, Backlog, clientVars, soVars,
         registry, ipVars, loopVars
<1>6. DeadIsClosed'
      BY ReactorAssumption, Zenon DEF Base, DeadIsClosed, TypeOK, OnNewConnections, Dispatch,
         Idle, UpdateRegistry, PollerAdds, LoopUsesRegistry, Backlog, clientVars, soVars,
         registry, ipVars, loopVars
<1>7. Kept'
      BY ReactorAssumption, Zenon DEF Base, Kept, IpShape, OnNewConnections, Dispatch, Idle,
         UpdateRegistry, PollerAdds, LoopUsesRegistry, Backlog, clientVars, soVars,
         registry, ipVars, loopVars
<1>8. CrashCause'
      BY ReactorAssumption, Zenon DEF Base, CrashCause, TypeOK, OnNewConnections, Dispatch,
         Idle, UpdateRegistry, PollerAdds, LoopUsesRegistry, Backlog, clientVars, soVars,
         registry, ipVars, loopVars
<1>9. ErasingShape'
      BY Zenon DEF Base, ErasingShape, OnNewConnections, Dispatch, Idle, UpdateRegistry,
         PollerAdds, LoopUsesRegistry, clientVars, soVars, registry, ipVars, loopVars
<1>10. QED BY <1>1, <1>2, <1>3, <1>4, <1>5, <1>6, <1>7, <1>8, <1>9, Zenon DEF Base

LEMMA SocketCallKeeps ==
    ASSUME Base, NEW c \in Socks, SocketCall(c)
    PROVE  Base'
<1>1. TypeOK'
      BY ReactorAssumption DEF Base, TypeOK, IpShape, IpAt, Handles, Kinds, SocketCall,
         OnRequest, Dispatch, Idle, UpdateRegistry, PollerAdds, LoopUsesRegistry,
         clientVars, soVars, registry, ipVars, loopVars
<1>2. IpShape'
      BY ReactorAssumption DEF Base, IpShape, TypeOK, SocketCall, OnRequest, Dispatch,
         Idle, UpdateRegistry, PollerAdds, LoopUsesRegistry, clientVars, soVars, registry,
         ipVars, loopVars
<1>3. RegistryExact'
      <2>1. PICK made \in SUBSET Handles : UpdateRegistry(made, WriteDrops(c))
            <3>1. {c} \X (IF c \in Tcp THEN {"pipe", "estab"} ELSE {"pipe"}) \in SUBSET Handles
                  BY Zenon DEF Handles, Kinds
            <3>2. QED BY <3>1, Zenon DEF SocketCall, OnRequest
      <2>2. UNCHANGED ipVars
            BY Zenon DEF SocketCall, OnRequest
      <2>3. QED BY <2>1, <2>2, WriteDropsOwned, Updating
<1>4. Accepted'
      <2>1. c \in listed
            <3>1. req[c] # "none" /\ <<c, "chan">> \in live /\ "chan" \in Kinds
                  BY Zenon DEF Kinds, SocketCall, OnRequest
            <3>2. QED BY <3>1, Zenon DEF Base, Accepted
      <2>2. \A d \in Socks \ {c} : /\ \A k \in Kinds : <<d, k>> \in live' => <<d, k>> \in live
                                  /\ req'[d] = req[d]
            <3>1. req \in [Socks -> {"none", "socket", "connect", "sendto", "recvfrom"}]
                  BY Zenon DEF Base, TypeOK
            <3>2. QED BY <3>1, Zenon DEF SocketCall, OnRequest, UpdateRegistry
      <2>3. UNCHANGED <<listed, client, ip>>
            BY Zenon DEF SocketCall, OnRequest, ipVars
      <2>4. QED BY <2>1, <2>2, <2>3, Zenon DEF Base, Accepted
<1>5. BatchReady'
      BY ReactorAssumption, Zenon DEF Base, BatchReady, TypeOK, SocketCall, OnRequest,
         Dispatch, Idle, UpdateRegistry, PollerAdds, LoopUsesRegistry, clientVars, soVars,
         registry, ipVars, loopVars
<1>6. DeadIsClosed'
      BY ReactorAssumption, Zenon DEF Base, DeadIsClosed, TypeOK, SocketCall, OnRequest,
         Dispatch, Idle, UpdateRegistry, PollerAdds, LoopUsesRegistry, clientVars, soVars,
         registry, ipVars, loopVars
<1>7. Kept'
      BY ReactorAssumption, Zenon DEF Base, Kept, IpShape, SocketCall, OnRequest, Dispatch,
         Idle, UpdateRegistry, PollerAdds, LoopUsesRegistry, clientVars, soVars, registry,
         ipVars, loopVars
<1>8. CrashCause'
      BY ReactorAssumption, Zenon DEF Base, CrashCause, TypeOK, SocketCall, OnRequest,
         Dispatch, Idle, UpdateRegistry, PollerAdds, LoopUsesRegistry, clientVars, soVars,
         registry, ipVars, loopVars
<1>9. ErasingShape'
      BY Zenon DEF Base, ErasingShape, SocketCall, OnRequest, Dispatch, Idle, UpdateRegistry,
         PollerAdds, LoopUsesRegistry, clientVars, soVars, registry, ipVars, loopVars
<1>10. QED BY <1>1, <1>2, <1>3, <1>4, <1>5, <1>6, <1>7, <1>8, <1>9, Zenon DEF Base

\* A handle that was destroyed after poll reported it had been closed.
LEMMA DispatchDestroyedKeeps ==
    ASSUME Base, NEW h \in Handles, DispatchDestroyed(h)
    PROVE  Base'
<1>1. TypeOK'
      BY ReactorAssumption, Zenon DEF Base, TypeOK, IpShape, IpAt, Handles, Kinds,
         DispatchDestroyed, Dispatch, Idle, UseOfFreed, clientVars, soVars, registry,
         ipVars, loopVars
<1>2. BatchReady'
      BY ReactorAssumption, Zenon DEF Base, BatchReady, TypeOK, DispatchDestroyed, Dispatch,
         Idle, UseOfFreed, clientVars, soVars, registry, ipVars, loopVars
<1>3. DeadIsClosed'
      BY ReactorAssumption, Zenon DEF Base, DeadIsClosed, TypeOK, DispatchDestroyed, Dispatch,
         Idle, UseOfFreed, clientVars, soVars, registry, ipVars, loopVars
<1>4. CrashCause'
      <2>1. h \in batch \ live /\ h # Listener /\ h[1] \in Socks
            BY DEF DispatchDestroyed, Dispatch, Handles, Kinds, Listener
      <2>2. client[h[1]] \in Gone
            BY <2>1, Zenon DEF Base, DeadIsClosed
      <2>3. QED BY <2>1, <2>2, Zenon DEF CrashCause, DispatchDestroyed, clientVars
<1>5. IpShape' /\ ErasingShape' /\ RegistryExact' /\ Accepted' /\ Kept'
      BY Zenon DEF Base, IpShape, ErasingShape, RegistryExact, Accepted, Kept,
         DispatchDestroyed, Dispatch, Idle, UseOfFreed, clientVars, soVars, registry,
         ipVars, loopVars
<1>6. QED BY <1>1, <1>2, <1>3, <1>4, <1>5, Zenon DEF Base

\* The IP thread's steps on the socket whose session it holds.
LEMMA IpAnswersKeeps ==
    ASSUME Base, NEW c \in Socks, IpAnswers(c)
    PROVE  Base'
<1>1. TypeOK'
      BY ReactorAssumption, Zenon DEF Base, TypeOK, IpShape, IpAt, Handles, Kinds, IpAnswers,
         Ip, clientVars, soVars, registry, ipVars, loopVars
<1>2. IpShape'
      BY ReactorAssumption, Zenon DEF Base, IpShape, TypeOK, IpAnswers, Ip, clientVars, soVars,
         registry, ipVars, loopVars
<1>3. ErasingShape'
      <2>1. erasing = {}
            BY Zenon DEF Base, ErasingShape, IpAnswers, Gone
      <2>2. QED BY <2>1, Zenon DEF ErasingShape, IpAnswers
<1>4. Accepted'
      BY ReactorAssumption, Zenon DEF Base, Accepted, IpShape, TypeOK, IpAnswers, Ip,
         clientVars, soVars, registry, ipVars, loopVars
<1>5. Kept'
      BY ReactorAssumption, Zenon DEF Base, Kept, IpShape, IpAnswers, Ip, clientVars, soVars,
         registry, ipVars, loopVars
<1>6. RegistryExact' /\ BatchReady' /\ DeadIsClosed' /\ CrashCause'
      BY Zenon DEF Base, RegistryExact, BatchReady, DeadIsClosed, CrashCause, IpAnswers, Ip,
         clientVars, soVars, registry, ipVars, loopVars
<1>7. QED BY <1>1, <1>2, <1>3, <1>4, <1>5, <1>6, Zenon DEF Base

LEMMA IpLocksKeeps ==
    ASSUME Base, NEW c \in Socks, IpLocks(c)
    PROVE  Base'
<1>1. TypeOK'
      BY ReactorAssumption DEF Base, TypeOK, IpShape, IpAt, Handles, Kinds, IpLocks, Ip,
         SoAlive, ChanAlive, clientVars, soVars, registry, ipVars, loopVars
<1>2. IpShape'
      BY ReactorAssumption DEF Base, IpShape, TypeOK, IpLocks, Ip, SoAlive, ChanAlive,
         clientVars, soVars, registry, ipVars, loopVars
<1>3. ErasingShape'
      BY ReactorAssumption, Zenon DEF Base, ErasingShape, IpShape, IpLocks, Ip, SoAlive,
         ChanAlive, clientVars, soVars, registry, ipVars, loopVars
<1>4. Accepted'
      BY ReactorAssumption DEF Base, Accepted, IpShape, TypeOK, IpLocks, Ip, SoAlive,
         ChanAlive, clientVars, soVars, registry, ipVars, loopVars
<1>5. Kept'
      BY ReactorAssumption DEF Base, Kept, IpShape, IpLocks, Ip, SoAlive, ChanAlive,
         clientVars, soVars, registry, ipVars, loopVars
<1>6. CrashCause'
      <2>1. ASSUME ~SoAlive(c) PROVE client[c] \in Gone
            <3>1. c \notin listed
                  BY <2>1, Zenon DEF Base, IpShape, SoAlive, ChanAlive, IpLocks
            <3>2. QED BY <3>1, Zenon DEF Base, Accepted, IpLocks
      <2>2. QED BY <2>1, Zenon DEF Base, CrashCause, IpLocks, clientVars, registry
<1>7. RegistryExact' /\ BatchReady' /\ DeadIsClosed'
      BY Zenon DEF Base, RegistryExact, BatchReady, DeadIsClosed, IpLocks, Ip, SoAlive,
         ChanAlive, clientVars, soVars, registry, ipVars, loopVars
<1>8. QED BY <1>1, <1>2, <1>3, <1>4, <1>5, <1>6, <1>7, Zenon DEF Base

LEMMA IpPutsKeeps ==
    ASSUME Base, NEW c \in Socks, IpPuts(c)
    PROVE  Base'
<1>1. TypeOK'
      BY ReactorAssumption DEF Base, TypeOK, IpShape, IpAt, Handles, Kinds, IpPuts, Ip,
         clientVars, soVars, registry, ipVars, loopVars
<1>2. IpShape'
      BY ReactorAssumption, Zenon DEF Base, IpShape, TypeOK, IpPuts, Ip, clientVars, soVars,
         registry, ipVars, loopVars
<1>3. ErasingShape'
      BY ReactorAssumption, Zenon DEF Base, ErasingShape, IpShape, IpPuts, Ip, clientVars,
         soVars, registry, ipVars, loopVars
<1>4. Accepted'
      BY ReactorAssumption, Zenon DEF Base, Accepted, IpShape, TypeOK, IpPuts, Ip, clientVars,
         soVars, registry, ipVars, loopVars
<1>5. Kept'
      BY ReactorAssumption, Zenon DEF Base, Kept, IpShape, IpPuts, Ip, clientVars, soVars,
         registry, ipVars, loopVars
<1>6. RegistryExact' /\ BatchReady' /\ DeadIsClosed' /\ CrashCause'
      BY Zenon DEF Base, RegistryExact, BatchReady, DeadIsClosed, CrashCause, IpPuts, Ip,
         clientVars, soVars, registry, ipVars, loopVars
<1>7. QED BY <1>1, <1>2, <1>3, <1>4, <1>5, <1>6, Zenon DEF Base

-----------------------------------------------------------------------------
\* What dies with a socket's last reference: nothing while its channel is
\* listed, and everything once nothing else keeps it.
LEMMA DyingHandles ==
    ASSUME NEW c \in Socks, NEW ls, NEW hs
    PROVE  /\ Dying(c, ls, hs) \in Seq(Handles)
           /\ Range(Dying(c, ls, hs)) \subseteq live
           /\ Range(Dying(c, ls, hs)) \subseteq Of(c)
           /\ c \in ls => Dying(c, ls, hs) = <<>>
           /\ c \notin ls /\ hs = {} =>
                 \A k \in Kinds : <<c, k>> \in live => <<c, k>> \in Range(Dying(c, ls, hs))
<1> DEFINE chan == c \in ls \/ "chan" \in hs
           so   == chan \/ "so" \in hs
           pcb  == so \/ "pcb" \in hs
           p    == Goes(c, "chan", chan)
           q    == Goes(c, "estab", pcb)
           r    == Goes(c, "pipe", so)
<1>1. Dying(c, ls, hs) = p \o q \o r
      BY Zenon DEF Dying
<1>2. ASSUME NEW k \in Kinds, NEW b
      PROVE  /\ Goes(c, k, b) \in Seq(Handles)
             /\ Range(Goes(c, k, b)) \subseteq live \cap Of(c)
             /\ b => Goes(c, k, b) = <<>>
             /\ <<c, k>> \in live /\ ~b => <<c, k>> \in Range(Goes(c, k, b))
      <2>1. <<c, k>> \in Handles /\ <<c, k>> \in Of(c)
            BY Zenon DEF Handles, Of
      <2>2. PICK h : h = <<c, k>>
            BY Zenon
      <2>3. CASE <<c, k>> \in live /\ ~b
            <3>1. Goes(c, k, b) = <<h>>
                  BY <2>2, <2>3, Zenon DEF Goes
            <3>2. <<h>> \in Seq(Handles) /\ Range(<<h>>) = {h}
                  BY <2>1, <2>2 DEF Range
            <3>3. QED BY <2>1, <2>2, <2>3, <3>1, <3>2, Zenon
      <2>4. CASE ~(<<c, k>> \in live /\ ~b)
            <3>1. Goes(c, k, b) = <<>>
                  BY <2>4, Zenon DEF Goes
            <3>2. Range(<<>>) = {} /\ <<>> \in Seq(Handles)
                  BY DEF Range
            <3>3. QED BY <2>4, <3>1, <3>2, Zenon
      <2>5. QED BY <2>3, <2>4, Zenon
<1>3. ASSUME NEW S, NEW u \in Seq(S), NEW v \in Seq(S)
      PROVE  u \o v \in Seq(S) /\ Range(u \o v) = Range(u) \cup Range(v)
      <2>1. PICK w : w = u \o v
            BY Zenon
      <2>2. /\ w \in Seq(S) /\ Len(w) = Len(u) + Len(v) /\ Len(u) \in Nat /\ Len(v) \in Nat
            /\ \A i \in 1..Len(u) : w[i] = u[i]
            /\ \A i \in 1..Len(v) : w[Len(u) + i] = v[i]
            BY <2>1
      <2>3. DOMAIN u = 1..Len(u) /\ DOMAIN v = 1..Len(v) /\ DOMAIN w = 1..Len(w)
            BY <2>2
      <2>4. ASSUME NEW x \in Range(w) PROVE x \in Range(u) \cup Range(v)
            <3>1. PICK i \in 1..Len(w) : x = w[i]
                  BY <2>3, Zenon DEF Range
            <3>2. CASE i <= Len(u)
                  <4>1. i \in 1..Len(u)
                        BY <2>2, <3>2
                  <4>2. QED BY <2>2, <2>3, <3>1, <4>1, Zenon DEF Range
            <3>3. CASE i > Len(u)
                  <4>1. i - Len(u) \in 1..Len(v) /\ i = Len(u) + (i - Len(u))
                        BY <2>2, <3>3
                  <4>2. x = v[i - Len(u)]
                        BY <2>2, <3>1, <4>1, Zenon
                  <4>3. QED BY <2>3, <4>1, <4>2, Zenon DEF Range
            <3>4. QED BY <2>2, <3>2, <3>3
      <2>5. ASSUME NEW i \in 1..Len(u) PROVE u[i] \in Range(w)
            <3>1. i \in 1..Len(w)
                  BY <2>2
            <3>2. QED BY <2>2, <2>3, <3>1, Zenon DEF Range
      <2>6. ASSUME NEW i \in 1..Len(v) PROVE v[i] \in Range(w)
            <3>1. Len(u) + i \in 1..Len(w)
                  BY <2>2
            <3>2. QED BY <2>2, <2>3, <3>1, Zenon DEF Range
      <2>7. Range(u) \cup Range(v) \subseteq Range(w)
            BY <2>3, <2>5, <2>6, Zenon DEF Range
      <2>8. QED BY <2>1, <2>2, <2>4, <2>7, Zenon
<1>4. "chan" \in Kinds /\ "estab" \in Kinds /\ "pipe" \in Kinds
      BY Zenon DEF Kinds
<1>5. p \in Seq(Handles) /\ q \in Seq(Handles) /\ r \in Seq(Handles)
      BY <1>2, <1>4, Zenon
<1>6. p \o q \in Seq(Handles) /\ Range(p \o q) = Range(p) \cup Range(q)
      BY <1>3, <1>5
<1>7. /\ p \o q \o r \in Seq(Handles)
      /\ Range(p \o q \o r) = Range(p) \cup Range(q) \cup Range(r)
      <2> HIDE DEF p, q, r
      <2>1. PICK w : w = p \o q
            BY Zenon
      <2>2. w \in Seq(Handles) /\ r \in Seq(Handles)
            BY <1>5, <1>6, <2>1, Zenon
      <2>3. w \o r \in Seq(Handles) /\ Range(w \o r) = Range(w) \cup Range(r)
            BY <1>3, <2>2
      <2>4. QED BY <1>6, <2>1, <2>3, Zenon
<1>8. Range(p \o q \o r) \subseteq live \cap Of(c)
      <2>1. /\ Range(p) \subseteq live \cap Of(c) /\ Range(q) \subseteq live \cap Of(c)
            /\ Range(r) \subseteq live \cap Of(c)
            BY <1>2, <1>4, Zenon
      <2>2. QED BY <1>7, <2>1, Zenon
<1>9. ASSUME c \in ls PROVE p \o q \o r = <<>>
      <2>1. p = <<>> /\ q = <<>> /\ r = <<>>
            BY <1>2, <1>4, <1>9, Zenon
      <2>2. QED BY <2>1
<1>10. ASSUME c \notin ls, hs = {}, NEW k \in Kinds, <<c, k>> \in live
       PROVE  <<c, k>> \in Range(p \o q \o r)
      <2>1. ~chan /\ ~so /\ ~pcb
            BY <1>10, Zenon
      <2>2. k = "chan" => <<c, k>> \in Range(p)
            BY <1>2, <1>10, <2>1, Zenon
      <2>3. k = "estab" => <<c, k>> \in Range(q)
            BY <1>2, <1>10, <2>1, Zenon
      <2>4. k = "pipe" => <<c, k>> \in Range(r)
            BY <1>2, <1>10, <2>1, Zenon
      <2>5. QED BY <1>7, <2>2, <2>3, <2>4, Zenon DEF Kinds
<1>11. QED BY <1>1, <1>7, <1>8, <1>9, <1>10, Zenon

\* The queue of an Endpoint that goes is empty.
LEMMA QueueGoes ==
    ASSUME Base, NEW c \in Socks, queued' \in {queued, [queued EXCEPT ![c] = 0]}
    PROVE  /\ queued' \in [Socks -> 0..MaxQueued]
           /\ \A d \in Socks : queued[d] < MaxQueued => queued'[d] < MaxQueued
<1>1. 0 \in 0..MaxQueued /\ 0 < MaxQueued
      BY ReactorAssumption
<1>2. queued \in [Socks -> 0..MaxQueued]
      BY Zenon DEF Base, TypeOK
<1>3. CASE queued' = queued
      BY <1>2, <1>3, Zenon
<1>4. CASE queued' = [queued EXCEPT ![c] = 0]
      <2>1. \A d \in Socks : queued'[d] = IF d = c THEN 0 ELSE queued[d]
            BY <1>2, <1>4, Zenon
      <2>2. QED BY <1>1, <1>2, <1>4, <2>1, Zenon
<1>5. QED BY <1>3, <1>4, Zenon

\* removeRRChannel after the end of file: the client has closed, so what dies is
\* no open socket's.
LEMMA OnEofKeeps ==
    ASSUME Base, NEW c \in Socks, OnEof(c)
    PROVE  Base'
<1> DEFINE dying == Dying(c, listed \ {c}, IpHolds(c))
           hs == Range(dying)
<1>1. /\ <<c, "chan">> \in batch /\ batch' = batch \ {<<c, "chan">>} /\ Idle
      /\ <<c, "chan">> \in live /\ req[c] = "none" /\ listed' = listed \ {c}
      /\ waiting' \in {waiting, waiting \ {c}} /\ queued' \in {queued, [queued EXCEPT ![c] = 0]}
      /\ UNCHANGED <<client, req, inCall, reset, conn, piped, ip, doomed, erasing, blocked>>
      BY Zenon DEF OnEof, EndpointGoes, Dispatch, clientVars, ipVars
<1>2. client[c] \in Gone
      BY <1>1, Zenon DEF Base, BatchReady
<1>3. hs \subseteq live /\ hs \subseteq Of(c)
      BY DyingHandles, Zenon
<1>4. IpHolds(c) = {} => \A k \in Kinds : <<c, k>> \in live => <<c, k>> \in hs
      BY DyingHandles
<1>5. dying = <<>> => hs = {}
      BY DEF Range
<1>6. \/ hs = {} /\ UNCHANGED <<live, owned, channels, epoll, torn, raced, daemon>>
      \/ DestroyHandles(hs) /\ daemon' \in {"up", "crashed"}
      BY <1>5, Zenon DEF OnEof, registry, UseOfFreed
<1> HIDE DEF dying, hs
<1>7. /\ live' = live \ hs /\ live' \subseteq live
      /\ \A h \in live \ live' : h \in Of(c)
      /\ owned' \subseteq owned /\ channels' \subseteq channels /\ epoll' \subseteq epoll
      BY <1>3, <1>6, Zenon DEF DestroyHandles, PollerRemoves
<1>8. TypeOK'
      <2>1. queued' \in [Socks -> 0..MaxQueued]
            BY <1>1, QueueGoes, Zenon
      <2>2. daemon' \in {"up", "crashed"} /\ torn' \in BOOLEAN /\ raced' \in BOOLEAN
            BY <1>1, <1>6, Zenon DEF Base, TypeOK, DestroyHandles, LoopUsesRegistry, Idle
      <2>3. QED BY <1>1, <1>7, <2>1, <2>2, Zenon DEF Base, TypeOK
<1>9. IpShape' /\ ErasingShape'
      <2>1. torn' => raced'
            BY <1>6, Zenon DEF Base, IpShape, TypeOK, DestroyHandles, LoopUsesRegistry
      <2>2. \A d \in Socks : queued[d] < MaxQueued => queued'[d] < MaxQueued
            BY <1>1, QueueGoes, Zenon
      <2>3. QED BY <1>1, <2>1, <2>2, Zenon DEF Base, IpShape, ErasingShape
<1>10. RegistryExact'
      BY <1>1, <1>3, <1>6, Zenon
      DEF Base, RegistryExact, DestroyHandles, LoopUsesRegistry, PollerRemoves
<1>11. Accepted'
      BY <1>1, <1>2, <1>7, Zenon DEF Base, Accepted
<1>12. BatchReady'
      BY <1>1, Zenon DEF Base, BatchReady
<1>13. DeadIsClosed'
      <2>1. SUFFICES ASSUME NEW h \in (epoll' \cup batch') \ live', h # Listener
                     PROVE  client[h[1]] \in Gone
            BY <1>1, Zenon DEF DeadIsClosed
      <2>2. CASE h \in live
            <3>1. h[1] = c
                  BY <1>7, <2>1, <2>2 DEF Of
            <3>2. QED BY <1>2, <3>1, Zenon
      <2>3. CASE h \notin live
            BY <1>1, <1>7, <2>1, <2>3, Zenon DEF Base, DeadIsClosed
      <2>4. QED BY <2>2, <2>3, Zenon
<1>14. Kept'
      <2>1. SUFFICES ASSUME NEW h \in live'
                     PROVE  \/ h[1] \in listed'
                            \/ ip.at \notin {"idle", "destroy"} /\ h[1] = ip.c
            BY <1>1, Zenon DEF Kept
      <2>2. h \in live /\ h \in Handles /\ h = <<h[1], h[2]>> /\ h[2] \in Kinds
            BY <1>7, <2>1 DEF Base, TypeOK, Handles
      <2>3. CASE h[1] # c
            BY <1>1, <2>2, <2>3, Zenon DEF Base, Kept
      <2>4. CASE h[1] = c
            <3>1. h \notin hs
                  BY <1>7, <2>1, Zenon
            <3>2. IpHolds(c) # {}
                  BY <1>4, <2>2, <2>4, <3>1, Zenon
            <3>3. QED BY <2>4, <3>2, Zenon DEF IpHolds, Base, IpShape
      <2>5. QED BY <2>3, <2>4, Zenon
<1>15. CrashCause'
      BY <1>1, <1>2, Zenon DEF CrashCause
<1>16. QED BY <1>8, <1>9, <1>10, <1>11, <1>12, <1>13, <1>14, <1>15, Zenon DEF Base

\* The last reference of the IP thread: nothing dies under a listed channel, and
\* of one that is not listed nothing stays.
LEMMA IpReleasesKeeps ==
    ASSUME Base, NEW c \in Socks, IpReleases(c)
    PROVE  Base'
<1> DEFINE dying == Dying(c, listed, {})
<1>1. /\ ip.at = "release" /\ ip.c = c /\ daemon = "up"
      /\ doomed' = dying /\ live' = live \ Range(dying)
      /\ ip' = IF dying = <<>> THEN [at |-> "idle", c |-> NoSock, holds |-> {}]
                               ELSE [at |-> "destroy", c |-> c, holds |-> {}]
      /\ waiting' \in {waiting, waiting \ {c}} /\ queued' \in {queued, [queued EXCEPT ![c] = 0]}
      /\ UNCHANGED <<client, req, inCall, reset, listed, conn, piped, owned, channels, epoll,
                     torn, raced, erasing, batch, blocked, daemon>>
      BY Zenon DEF IpReleases, EndpointGoes, Ip, clientVars, loopVars
<1>2. /\ dying \in Seq(Handles) /\ Range(dying) \subseteq live
      /\ Range(dying) \subseteq Of(c) /\ (c \in listed => dying = <<>>)
      /\ c \notin listed => \A k \in Kinds : <<c, k>> \in live => <<c, k>> \in Range(dying)
      BY DyingHandles, Zenon
<1>3. Range(<<>>) = {}
      BY DEF Range
<1>4. /\ dying # <<>> => client[c] \in Gone
      /\ c \in listed \/ client[c] \in Gone
      BY <1>1, <1>2, Zenon DEF Base, Accepted
<1>5. doomed = <<>> /\ erasing = {}
      BY <1>1, Zenon DEF Base, IpShape, ErasingShape
<1> HIDE DEF dying
<1>6. /\ ip'.at = IF dying = <<>> THEN "idle" ELSE "destroy"
      /\ ip'.c = IF dying = <<>> THEN NoSock ELSE c
      /\ ip'.holds = {}
      BY <1>1, Zenon
<1>7. TypeOK'
      <2>1. ip' \in [at : IpAt, c : Socks \cup {NoSock}, holds : SUBSET {"chan", "so", "pcb"}]
            BY <1>1, Zenon DEF IpAt
      <2>2. queued' \in [Socks -> 0..MaxQueued]
            BY <1>1, QueueGoes, Zenon
      <2>3. QED BY <1>1, <1>2, <2>1, <2>2, Zenon DEF Base, TypeOK
<1>8. IpShape' /\ ErasingShape'
      BY <1>1, <1>5, <1>6, Zenon DEF Base, IpShape, ErasingShape
<1>9. RegistryExact'
      BY <1>1, <1>2, <1>3, <1>5, Zenon DEF Base, RegistryExact
<1>10. Accepted'
      BY <1>1, <1>4, <1>6, ReactorAssumption, Zenon DEF Base, Accepted
<1>11. BatchReady' /\ CrashCause'
      BY <1>1, Zenon DEF Base, BatchReady, CrashCause
<1>12. DeadIsClosed'
      <2>1. SUFFICES ASSUME NEW h \in (epoll \cup batch) \ live', h # Listener
                     PROVE  client[h[1]] \in Gone
            BY <1>1, Zenon DEF DeadIsClosed
      <2>2. CASE h \in live
            <3>1. h \in Range(dying) /\ h[1] = c
                  BY <1>1, <1>2, <2>1, <2>2, Zenon DEF Of
            <3>2. QED BY <1>3, <1>4, <3>1, Zenon
      <2>3. CASE h \notin live
            BY <2>1, <2>3, Zenon DEF Base, DeadIsClosed
      <2>4. QED BY <2>2, <2>3, Zenon
<1>13. Kept'
      <2>1. SUFFICES ASSUME NEW h \in live' PROVE h[1] \in listed
            BY <1>1, Zenon DEF Kept
      <2>2. h \in live /\ h \in Handles /\ h = <<h[1], h[2]>> /\ h[2] \in Kinds
            BY <1>1, <2>1 DEF Base, TypeOK, Handles
      <2>3. h[1] # c => h[1] \in listed
            BY <1>1, <2>2, Zenon DEF Base, Kept
      <2>4. h[1] = c => c \in listed
            BY <1>1, <1>2, <2>1, <2>2, Zenon
      <2>5. QED BY <2>3, <2>4, Zenon
<1>14. QED BY <1>7, <1>8, <1>9, <1>10, <1>11, <1>12, <1>13, Zenon DEF Base

\* The two halves of removeChannel on the IP thread, for handle h.
LEMMA Removing ==
    ASSUME Base, NEW h \in Handles, daemon = "up",
           erasing # {} => erasing = {h},
           \/ /\ erasing = {} /\ h \in owned \cap channels
              /\ FindEntry(h) /\ UNCHANGED <<owned, channels, daemon, doomed>>
           \/ /\ ~(erasing = {} /\ h \in owned \cap channels)
              /\ EraseEntry /\ owned' = owned \ {h}
              /\ epoll' \in {epoll, epoll \ {h}}
              /\ Range(doomed) \subseteq Range(doomed') \cup {h},
           UNCHANGED <<live, raced, client, batch>>
    PROVE  /\ owned' \in SUBSET Handles /\ channels' \in SUBSET Handles
           /\ epoll' \in SUBSET Handles /\ erasing' \in SUBSET Handles
           /\ epoll' \subseteq epoll
           /\ torn' = FALSE /\ daemon' \in {"up", "crashed"}
           /\ RegistryExact' /\ DeadIsClosed' /\ CrashCause'
<1>1. /\ owned \in SUBSET Handles /\ channels \in SUBSET Handles
      /\ epoll \in SUBSET Handles /\ erasing \in SUBSET Handles
      /\ torn \in BOOLEAN /\ raced \in BOOLEAN /\ (torn => raced)
      BY Zenon DEF Base, TypeOK, IpShape
<1>2. CASE /\ erasing = {} /\ h \in owned \cap channels
           /\ FindEntry(h) /\ UNCHANGED <<owned, channels, daemon, doomed>>
      <2>1. erasing' = {h} /\ epoll' = epoll \ {h} /\ torn' = FALSE
            BY <1>2, Zenon DEF FindEntry, PollerRemoves
      <2>2. RegistryExact'
            BY <1>2, <2>1, Zenon DEF Base, RegistryExact
      <2>3. DeadIsClosed' /\ CrashCause'
            BY <1>2, <2>1, Zenon DEF Base, DeadIsClosed, CrashCause
      <2>4. QED BY <1>1, <1>2, <2>1, <2>2, <2>3, Zenon
<1>3. CASE /\ ~(erasing = {} /\ h \in owned \cap channels)
           /\ EraseEntry /\ owned' = owned \ {h}
           /\ epoll' \in {epoll, epoll \ {h}}
           /\ Range(doomed) \subseteq Range(doomed') \cup {h}
      <2>1. /\ channels' \subseteq channels /\ erasing' = {} /\ torn' = FALSE
            /\ ~raced => channels' = channels \ erasing /\ daemon' = daemon
            BY <1>1, <1>3, Zenon DEF EraseEntry
      <2>2. daemon' \in {"up", "crashed"}
            BY <1>3, Zenon DEF EraseEntry, UseOfFreed
      <2>3. RegistryExact'
            BY <1>3, <2>1, Zenon DEF Base, RegistryExact
      <2>4. DeadIsClosed'
            BY <1>3, Zenon DEF Base, DeadIsClosed
      <2>5. CrashCause'
            BY <2>1, Zenon DEF Base, CrashCause
      <2>6. QED BY <1>1, <1>3, <2>1, <2>2, <2>3, <2>4, <2>5, Zenon
<1>4. QED BY <1>2, <1>3, Zenon

LEMMA IpUnregistersKeeps ==
    ASSUME Base, NEW c \in Socks, IpUnregisters(c)
    PROVE  Base'
<1> DEFINE h == <<c, "estab">>
           finds == erasing = {} /\ h \in owned \cap channels
<1>1. /\ daemon = "up" /\ ip.at = "unregister" /\ ip.c = c
      /\ UNCHANGED <<client, req, inCall, reset, listed, conn, waiting, queued, piped, live,
                     raced, doomed, batch, blocked>>
      BY Zenon DEF IpUnregisters, clientVars, soVars, loopVars
<1>2. erasing # {} => erasing = {h}
      BY <1>1, Zenon DEF Base, ErasingShape
<1>3. h \in Handles
      BY Zenon DEF Handles, Kinds
<1>4. CASE finds
      <2>1. FindEntry(h) /\ UNCHANGED <<ip, owned, channels, daemon>>
            BY <1>4, Zenon DEF IpUnregisters
      <2>2. /\ owned' \in SUBSET Handles /\ channels' \in SUBSET Handles
            /\ epoll' \in SUBSET Handles /\ erasing' \in SUBSET Handles
            /\ torn' = FALSE /\ RegistryExact' /\ DeadIsClosed' /\ CrashCause'
            BY <1>1, <1>2, <1>3, <1>4, <2>1, Removing, Zenon
      <2>3. erasing' = {h}
            BY <1>4, <2>1, Zenon DEF FindEntry
      <2> HIDE DEF h, finds
      <2>4. TypeOK'
            BY <1>1, <2>1, <2>2, Zenon DEF Base, TypeOK
      <2>5. IpShape'
            BY <1>1, <2>1, <2>2, Zenon DEF Base, IpShape
      <2>6. ErasingShape'
            BY <1>1, <2>1, <2>3, Zenon DEF ErasingShape, h
      <2>7. Accepted' /\ BatchReady' /\ Kept'
            BY <1>1, <2>1, Zenon DEF Base, Accepted, BatchReady, Kept
      <2>8. QED BY <2>2, <2>4, <2>5, <2>6, <2>7, Zenon DEF Base
<1>5. CASE ~finds
      <2>1. /\ EraseEntry /\ owned' = owned \ {h} /\ UNCHANGED epoll
            /\ ip' = [at |-> "answer", c |-> c, holds |-> ip.holds]
            BY <1>5, Zenon DEF IpUnregisters, Ip
      <2>2. /\ owned' \in SUBSET Handles /\ channels' \in SUBSET Handles
            /\ epoll' \in SUBSET Handles /\ daemon' \in {"up", "crashed"}
            /\ torn' = FALSE /\ RegistryExact' /\ DeadIsClosed' /\ CrashCause'
            BY <1>1, <1>2, <1>3, <1>5, <2>1, Removing, Zenon
      <2>3. erasing' = {}
            BY <2>1, Zenon DEF EraseEntry
      <2>4. /\ ip'.at = "answer" /\ ip'.c = c
            /\ ip' \in [at : IpAt, c : Socks \cup {NoSock}, holds : SUBSET {"chan", "so", "pcb"}]
            BY <2>1, Zenon DEF Base, TypeOK, IpAt
      <2> HIDE DEF h, finds
      <2>5. TypeOK'
            BY <1>1, <2>2, <2>3, <2>4, Zenon DEF Base, TypeOK
      <2>6. IpShape' /\ ErasingShape'
            BY <1>1, <2>2, <2>3, <2>4, Zenon DEF Base, IpShape, ErasingShape
      <2>7. Accepted' /\ BatchReady' /\ Kept'
            BY <1>1, <2>4, Zenon DEF Base, Accepted, BatchReady, Kept
      <2>8. QED BY <2>2, <2>5, <2>6, <2>7, Zenon DEF Base
<1>6. QED BY <1>4, <1>5, Zenon

LEMMA IpDestroysKeeps ==
    ASSUME Base, NEW c \in Socks, IpDestroys(c)
    PROVE  Base'
<1> DEFINE h == Head(doomed)
           finds == erasing = {} /\ h \in owned \cap channels
<1>1. /\ daemon = "up" /\ ip.at = "destroy" /\ ip.c = c
      /\ UNCHANGED <<client, req, inCall, reset, listed, conn, waiting, queued, piped, live,
                     raced, batch, blocked>>
      BY Zenon DEF IpDestroys, clientVars, soVars, loopVars
<1>2. erasing # {} => erasing = {h}
      BY <1>1, Zenon DEF Base, ErasingShape
<1>3. doomed \in Seq(Handles) /\ doomed # <<>> /\ ip.holds = {}
      BY <1>1, Zenon DEF Base, TypeOK, IpShape
<1>4. h \in Handles /\ Tail(doomed) \in Seq(Handles)
      BY <1>3
<1>5. Range(doomed) \subseteq Range(Tail(doomed)) \cup {h}
      <2>1. PICK q \in Seq(Handles) : q = doomed
            BY <1>3, Zenon
      <2>2. ASSUME NEW i \in 1..Len(q), i # 1 PROVE q[i] \in Range(Tail(q))
            <3>1. Len(q) \in Nat /\ Len(Tail(q)) = Len(q) - 1 /\ Tail(q) \in Seq(Handles)
                  BY <1>3, <2>1
            <3>2. i - 1 \in 1..Len(Tail(q)) /\ Tail(q)[i - 1] = q[i]
                  BY <1>3, <2>1, <2>2, <3>1
            <3>3. DOMAIN Tail(q) = 1..Len(Tail(q))
                  BY <3>1
            <3>4. QED BY <3>2, <3>3, Zenon DEF Range
      <2>3. DOMAIN q = 1..Len(q) /\ Head(q) = q[1]
            BY <1>3, <2>1
      <2>4. QED BY <2>1, <2>2, <2>3 DEF Range
<1>6. CASE finds
      <2>1. FindEntry(h) /\ UNCHANGED <<ip, doomed, owned, channels, daemon>>
            BY <1>6, Zenon DEF IpDestroys
      <2>2. /\ owned' \in SUBSET Handles /\ channels' \in SUBSET Handles
            /\ epoll' \in SUBSET Handles /\ erasing' \in SUBSET Handles
            /\ torn' = FALSE /\ RegistryExact' /\ DeadIsClosed' /\ CrashCause'
            BY <1>1, <1>2, <1>4, <1>6, <2>1, Removing, Zenon
      <2>3. erasing' = {h}
            BY <1>6, <2>1, Zenon DEF FindEntry
      <2> HIDE DEF h, finds
      <2>4. TypeOK'
            BY <1>1, <2>1, <2>2, Zenon DEF Base, TypeOK
      <2>5. IpShape'
            BY <1>1, <2>1, <2>2, Zenon DEF Base, IpShape
      <2>6. ErasingShape'
            BY <1>1, <2>1, <2>3, Zenon DEF ErasingShape, h
      <2>7. Accepted' /\ BatchReady' /\ Kept'
            BY <1>1, <2>1, Zenon DEF Base, Accepted, BatchReady, Kept
      <2>8. QED BY <2>2, <2>4, <2>5, <2>6, <2>7, Zenon DEF Base
<1>7. CASE ~finds
      <2>1. /\ EraseEntry /\ owned' = owned \ {h} /\ epoll' \in {epoll, epoll \ {h}}
            /\ doomed' = Tail(doomed)
            /\ \/ doomed' = <<>> /\ ip' = [at |-> "idle", c |-> NoSock, holds |-> {}]
               \/ doomed' # <<>> /\ ip' = ip
            BY <1>7, Zenon DEF IpDestroys, Ip
      <2>2. /\ owned' \in SUBSET Handles /\ channels' \in SUBSET Handles
            /\ epoll' \in SUBSET Handles /\ daemon' \in {"up", "crashed"}
            /\ torn' = FALSE /\ RegistryExact' /\ DeadIsClosed' /\ CrashCause'
            BY <1>1, <1>2, <1>4, <1>5, <1>7, <2>1, Removing, Zenon
      <2>3. erasing' = {}
            BY <2>1, Zenon DEF EraseEntry
      <2>4. /\ ip'.holds = {}
            /\ \/ doomed' = <<>> /\ ip'.at = "idle" /\ ip'.c = NoSock
               \/ doomed' # <<>> /\ ip'.at = "destroy" /\ ip'.c = c
            /\ ip' \in [at : IpAt, c : Socks \cup {NoSock}, holds : SUBSET {"chan", "so", "pcb"}]
            BY <1>1, <1>3, <2>1 DEF Base, TypeOK, IpAt
      <2> HIDE DEF h, finds
      <2>5. TypeOK'
            BY <1>1, <1>4, <2>1, <2>2, <2>3, <2>4, Zenon DEF Base, TypeOK
      <2>6. IpShape' /\ ErasingShape'
            BY <1>1, <2>2, <2>3, <2>4, Zenon DEF Base, IpShape, ErasingShape
      <2>7. Accepted' /\ BatchReady' /\ Kept'
            BY <1>1, <2>4, ReactorAssumption, Zenon DEF Base, Accepted, BatchReady, Kept
      <2>8. QED BY <2>2, <2>5, <2>6, <2>7, Zenon DEF Base
<1>8. QED BY <1>6, <1>7, Zenon
\* The failed write of the answer to connect(): removeChannel of the channel on the
\* IP thread.
LEMMA IpWriteFailsKeeps ==
    ASSUME Base, NEW c \in Socks, IpWriteFails(c)
    PROVE  Base'
<1> DEFINE h == <<c, "chan">>
           finds == erasing = {} /\ h \in owned \cap channels
<1>1. /\ daemon = "up" /\ ip.at = "answer" /\ ip.c = c /\ client[c] \in Gone
      /\ reset' = reset \ {c}
      /\ UNCHANGED <<client, req, inCall, listed, conn, waiting, queued, piped, live,
                     raced, doomed, batch, blocked>>
      BY Zenon DEF IpWriteFails, soVars, loopVars
<1>2. erasing # {} => erasing = {h}
      BY <1>1, Zenon DEF Base, ErasingShape
<1>3. h \in Handles
      BY Zenon DEF Handles, Kinds
<1>4. CASE finds
      <2>1. FindEntry(h) /\ UNCHANGED <<ip, owned, channels, daemon>>
            BY <1>4, Zenon DEF IpWriteFails
      <2>2. /\ owned' \in SUBSET Handles /\ channels' \in SUBSET Handles
            /\ epoll' \in SUBSET Handles /\ erasing' \in SUBSET Handles
            /\ torn' = FALSE /\ RegistryExact' /\ DeadIsClosed' /\ CrashCause'
            BY <1>1, <1>2, <1>3, <1>4, <2>1, Removing, Zenon
      <2>3. erasing' = {h}
            BY <1>4, <2>1, Zenon DEF FindEntry
      <2> HIDE DEF h, finds
      <2>4. TypeOK'
            BY <1>1, <2>1, <2>2, Zenon DEF Base, TypeOK
      <2>5. IpShape'
            BY <1>1, <2>1, <2>2, Zenon DEF Base, IpShape
      <2>6. ErasingShape'
            BY <1>1, <2>1, <2>3, Zenon DEF ErasingShape, h
      <2>7. Accepted' /\ BatchReady' /\ Kept'
            BY <1>1, <2>1, Zenon DEF Base, Accepted, BatchReady, Kept
      <2>8. QED BY <2>2, <2>4, <2>5, <2>6, <2>7, Zenon DEF Base
<1>5. CASE ~finds
      <2>1. /\ EraseEntry /\ owned' = owned \ {h} /\ UNCHANGED epoll
            /\ ip' = [at |-> "release", c |-> c, holds |-> ip.holds]
            BY <1>5, Zenon DEF IpWriteFails, Ip
      <2>2. /\ owned' \in SUBSET Handles /\ channels' \in SUBSET Handles
            /\ epoll' \in SUBSET Handles /\ daemon' \in {"up", "crashed"}
            /\ torn' = FALSE /\ RegistryExact' /\ DeadIsClosed' /\ CrashCause'
            BY <1>1, <1>2, <1>3, <1>5, <2>1, Removing, Zenon
      <2>3. erasing' = {}
            BY <2>1, Zenon DEF EraseEntry
      <2>4. /\ ip'.at = "release" /\ ip'.c = c
            /\ ip' \in [at : IpAt, c : Socks \cup {NoSock}, holds : SUBSET {"chan", "so", "pcb"}]
            BY <2>1, Zenon DEF Base, TypeOK, IpAt
      <2> HIDE DEF h, finds
      <2>5. TypeOK'
            BY <1>1, <2>2, <2>3, <2>4, Zenon DEF Base, TypeOK
      <2>6. IpShape' /\ ErasingShape'
            BY <1>1, <2>2, <2>3, <2>4, Zenon DEF Base, IpShape, ErasingShape
      <2>7. Accepted' /\ BatchReady' /\ Kept'
            BY <1>1, <2>4, Zenon DEF Base, Accepted, BatchReady, Kept
      <2>8. QED BY <2>2, <2>5, <2>6, <2>7, Zenon DEF Base
<1>6. QED BY <1>4, <1>5, Zenon

LEMMA BaseKept ==
    ASSUME Base, [Next]_vars
    PROVE  Base'
<1>1. ASSUME NEW c \in Socks,
             \/ Opens(c) \/ Closes(c) \/ IpFinds(c) \/ IpEstab(c)
             \/ \E r \in {"connect", "sendto", "recvfrom"} : Calls(c, r)
             \/ \E unread \in BOOLEAN : Dies(c, unread)
      PROVE  Base'
      BY <1>1, ClientSteps, IpFindsKeeps, IpEstabKeeps, Zenon
<1>2. CASE LoopThread
      BY <1>2, QuietSteps, PollKeeps, OnNewConnectionsKeeps, SocketCallKeeps,
         OnEofKeeps, DispatchDestroyedKeeps, Zenon DEF LoopThread
<1>3. CASE IpThread
      BY <1>3, IpUnregistersKeeps, IpAnswersKeeps, IpWriteFailsKeeps, IpLocksKeeps,
         IpPutsKeeps, IpReleasesKeeps, IpDestroysKeeps, Zenon DEF IpThread
<1>4. QED BY <1>1, <1>2, <1>3, IdleSteps, Zenon DEF Next
-----------------------------------------------------------------------------
LEMMA EmptyRange == Range(<<>>) = {}
BY DEF Range

\* A step that is not about d's call.
Same(d) ==
    /\ (d \in inCall' <=> d \in inCall) /\ (d \in reset' <=> d \in reset)
    /\ (d \in waiting' <=> d \in waiting)
    /\ client'[d] = client[d] /\ req'[d] = req[d] /\ conn'[d] = conn[d]
    /\ Answering(d)' => Answering(d)
    /\ blocked' = d => blocked = d
    /\ d \in listed => d \in listed'

LEMMA SameTalk ==
    ASSUME NEW d \in Socks, TalkOf(d), Same(d)
    PROVE  TalkOf(d)'
<1> DEFINE ans == Answering(d)
           ansn == Answering(d)'
<1>1. ansn => ans
      BY Zenon DEF Same
<1> HIDE DEF ans, ansn
<1>2. QED BY <1>1, Zenon DEF TalkOf, Same, ans, ansn

\* Steps of which no call knows.
LEMMA StillTalk ==
    ASSUME Base, Talk,
           \/ \E hs \in SUBSET Ready : Poll(hs)
           \/ OnNewConnections \/ PollFails \/ UNCHANGED vars
           \/ \E h \in Handles : DispatchDestroyed(h)
    PROVE  Talk'
<1>1. /\ UNCHANGED <<client, req, inCall, reset, conn, waiting, ip, blocked>>
      /\ listed \subseteq listed'
      BY Zenon DEF Poll, OnNewConnections, PollFails, DispatchDestroyed, Dispatch, vars,
         clientVars, soVars, ipVars, loopVars
<1>2. ASSUME NEW d \in Socks PROVE Same(d)
      BY <1>1, Zenon DEF Same, Answering
<1>3. QED BY <1>2, SameTalk, Zenon DEF Talk

\* The client's steps.
LEMMA ClientTalk ==
    ASSUME Base, Talk, NEW c \in Socks,
           \/ Opens(c) \/ Closes(c) \/ \E unread \in BOOLEAN : Dies(c, unread)
           \/ \E r \in {"connect", "sendto", "recvfrom"} : Calls(c, r)
    PROVE  Talk'
<1>1. /\ client \in [Socks -> {"none", "open"} \cup Gone]
      /\ req \in [Socks -> {"none", "socket", "connect", "sendto", "recvfrom"}]
      BY Zenon DEF Base, TypeOK
<1>2. UNCHANGED <<listed, conn, waiting, ip, blocked>>
      BY Zenon DEF Opens, Calls, Closes, Dies, soVars, ipVars, loopVars
<1>3. /\ client' = [client EXCEPT ![c] = client'[c]]
      /\ req' = [req EXCEPT ![c] = req'[c]]
      /\ inCall' \in {inCall, inCall \cup {c}, inCall \ {c}}
      /\ reset' \in {reset, reset \cup {c}}
      /\ \/ /\ client[c] = "none" \/ (client[c] = "open" /\ c \notin inCall)
            /\ client'[c] = "open" /\ c \in inCall' /\ reset' = reset
         \/ /\ client[c] = "open" /\ c \notin inCall /\ client'[c] = "closed"
            /\ req'[c] = req[c] /\ inCall' = inCall /\ reset' = reset
         \/ client'[c] = "dead" /\ req'[c] = req[c] /\ c \notin inCall'
      BY <1>1, Zenon DEF Opens, Calls, Closes, Dies
<1>4. ASSUME NEW d \in Socks, d # c PROVE Same(d)
      BY <1>1, <1>2, <1>3, <1>4, Zenon DEF Same, Answering
<1>5. TalkOf(c)'
      <2>1. TalkOf(c)
            BY Zenon DEF Talk
      <2>2. Answering(c)' <=> Answering(c)
            BY <1>2, Zenon DEF Answering
      <2>3. /\ blocked' = blocked /\ conn' = conn /\ waiting' = waiting /\ listed' = listed
            BY <1>2, Zenon
      <2>4. QED BY <1>3, <2>1, <2>2, <2>3, Zenon DEF TalkOf
<1>6. QED BY <1>4, <1>5, SameTalk, Zenon DEF Talk

\* The event loop's handlers.
LEMMA HandlerTalk ==
    ASSUME Base, Talk, NEW c \in Socks,
           \/ SocketCall(c) \/ ConnectCall(c) \/ SendtoCall(c) \/ RecvfromCall(c)
    PROVE  Talk'
<1>1. /\ req \in [Socks -> {"none", "socket", "connect", "sendto", "recvfrom"}]
      /\ conn \in [Socks -> {"none", "new", "SYN_SENT", "bound"}]
      BY Zenon DEF Base, TypeOK
<1>2. /\ UNCHANGED <<client, reset, listed, ip, blocked>>
      /\ blocked = NoSock /\ req[c] # "none"
      /\ req' = [req EXCEPT ![c] = "none"] /\ conn' = [conn EXCEPT ![c] = conn'[c]]
      /\ inCall' \in {inCall, inCall \ {c}} /\ waiting' \in {waiting, waiting \cup {c}}
      /\ \/ inCall' = inCall /\ waiting' = waiting
         \/ waiting' = waiting /\ (conn'[c] # "SYN_SENT" \/ conn'[c] = conn[c])
         \/ inCall' = inCall /\ conn' = conn
      BY <1>1, Zenon DEF SocketCall, ConnectCall, SendtoCall, RecvfromCall, OnRequest, Dispatch,
         Idle, ipVars
<1>3. ASSUME NEW d \in Socks, d # c PROVE Same(d)
      BY <1>1, <1>2, <1>3, Zenon DEF Same, Answering
<1>4. TalkOf(c)'
      <2>1. TalkOf(c) /\ c # NoSock
            BY ReactorAssumption, Zenon DEF Talk
      <2>2. Answering(c)' <=> Answering(c)
            BY <1>2, Zenon DEF Answering
      <2>3. req'[c] = "none" /\ blocked' # c /\ client' = client /\ reset' = reset
            BY <1>1, <1>2, <2>1, Zenon
      <2>4. QED BY <1>2, <2>1, <2>2, <2>3, Zenon DEF TalkOf
<1>5. QED BY <1>3, <1>4, SameTalk, Zenon DEF Talk

\* Its other callbacks.
LEMMA CallbackTalk ==
    ASSUME Base, Talk, NEW c \in Socks,
           ReadFails(c) \/ OnEof(c) \/ SChannelReadCb(c) \/ TakeFromRecvQ(c)
    PROVE  Talk'
<1>1. /\ UNCHANGED <<client, req, conn, ip>>
      /\ listed' \in {listed, listed \ {c}} /\ reset' \in {reset, reset \ {c}}
      /\ inCall' \in {inCall, inCall \ {c}} /\ waiting' \in {waiting, waiting \ {c}}
      /\ blocked' \in {blocked, c, NoSock}
      /\ c \in inCall /\ c \notin inCall' => c \notin waiting' /\ blocked = c
      /\ blocked' = c => c \in waiting' /\ c \in listed'
      BY ReactorAssumption, Zenon DEF ReadFails, OnEof, EndpointGoes, SChannelReadCb,
         TakeFromRecvQ, Dispatch, Idle, clientVars, soVars, ipVars
<1>2. ASSUME NEW d \in Socks, d # c PROVE Same(d)
      <2>1. d # NoSock
            BY ReactorAssumption, Zenon
      <2>2. QED BY <1>1, <1>2, <2>1, Zenon DEF Same, Answering
<1>3. TalkOf(c)'
      <2>1. TalkOf(c) /\ c # NoSock
            BY ReactorAssumption, Zenon DEF Talk
      <2>2. Answering(c)' <=> Answering(c)
            BY <1>1, Zenon DEF Answering
      <2>3. /\ c \in inCall' => c \in inCall /\ (c \in reset' => c \in reset)
            /\ c \in waiting' => c \in waiting
            /\ c \in reset' => c \in reset
            /\ c \in inCall /\ c \notin inCall' =>
                  c \notin waiting' /\ req[c] = "none" /\ conn[c] # "SYN_SENT" /\ ~Answering(c)
            BY <1>1, <2>1, Zenon DEF TalkOf
      <2>4. blocked' = c => c \in waiting' /\ c \in listed'
            BY <1>1, <2>1, Zenon
      <2>5. client' = client /\ req' = req /\ conn' = conn
            BY <1>1, Zenon
      <2>6. QED BY <2>1, <2>2, <2>3, <2>4, <2>5, Zenon DEF TalkOf
<1>4. QED BY <1>2, <1>3, SameTalk, Zenon DEF Talk

\* The IP thread's steps.
LEMMA IpFields ==
    ASSUME NEW at, NEW x, NEW hs, Ip(at, x, hs)
    PROVE  ip'.at = at /\ ip'.c = x
BY Zenon DEF Ip

LEMMA IpTalk ==
    ASSUME Base, Talk, NEW c \in Socks,
           \/ IpFinds(c) \/ IpEstab(c) \/ IpUnregisters(c) \/ IpAnswers(c)
           \/ IpWriteFails(c) \/ IpLocks(c) \/ IpPuts(c) \/ IpReleases(c) \/ IpDestroys(c)
    PROVE  Talk'
<1>1. conn \in [Socks -> {"none", "new", "SYN_SENT", "bound"}]
      BY Zenon DEF Base, TypeOK
<1>2. CASE IpEstab(c)
      <2>1. /\ UNCHANGED <<client, req, inCall, reset, waiting, listed, blocked>>
            /\ ip.at = "idle" /\ conn[c] = "SYN_SENT" /\ conn' = [conn EXCEPT ![c] = "bound"]
            /\ ip'.c = c
            BY <1>2, IpFields, Zenon DEF IpEstab, clientVars, loopVars
      <2>2. ASSUME NEW d \in Socks, d # c PROVE Same(d)
            BY <1>1, <2>1, <2>2, Zenon DEF Same, Answering
      <2>3. TalkOf(c)'
            <3>1. TalkOf(c) /\ conn'[c] = "bound"
                  BY <1>1, <2>1, Zenon DEF Talk
            <3>2. QED BY <2>1, <3>1, Zenon DEF TalkOf
      <2>4. QED BY <2>2, <2>3, SameTalk, Zenon DEF Talk
<1>3. CASE IpAnswers(c)
      <2>1. /\ UNCHANGED <<client, req, conn, reset, waiting, listed, blocked>>
            /\ ip.at = "answer" /\ ip.c = c /\ inCall' = inCall \ {c} /\ ip'.at = "release"
            BY <1>3, Zenon DEF IpAnswers, Ip, soVars, loopVars
      <2>2. \A d \in Socks : ~Answering(d)'
            BY <2>1, Zenon DEF Answering
      <2>3. ASSUME NEW d \in Socks, d # c PROVE Same(d)
            BY <2>1, <2>2, <2>3, Zenon DEF Same
      <2>4. TalkOf(c)'
            <3>1. TalkOf(c) /\ Answering(c)
                  BY <2>1, Zenon DEF Talk, Answering
            <3>2. QED BY <2>1, <2>2, <3>1, Zenon DEF TalkOf
      <2>5. QED BY <2>3, <2>4, SameTalk, Zenon DEF Talk
<1>4. CASE IpReleases(c)
      <2>1. /\ UNCHANGED <<client, req, conn, inCall, reset, listed, blocked>>
            /\ ip'.at = "idle" \/ ip'.at = "destroy"
            /\ waiting' = waiting \/ (c \notin listed /\ waiting' = waiting \ {c})
            <3>1. c \in listed => Range(Dying(c, listed, {})) = {}
                  <4>1. c \in listed => Dying(c, listed, {}) = <<>>
                        BY DyingHandles, Zenon
                  <4>2. QED BY <4>1, EmptyRange, Zenon
            <3>2. waiting' = waiting \/ (c \notin listed /\ waiting' = waiting \ {c})
                  BY <1>4, <3>1, Zenon DEF IpReleases, EndpointGoes
            <3>3. QED BY <1>4, <3>2, IpFields, Zenon DEF IpReleases, clientVars, loopVars
      <2>2. \A d \in Socks : ~Answering(d)'
            BY <2>1, Zenon DEF Answering
      <2>3. ASSUME NEW d \in Socks, d # c PROVE Same(d)
            BY <2>1, <2>2, <2>3, Zenon DEF Same
      <2>4. TalkOf(c)'
            <3>1. TalkOf(c)
                  BY Zenon DEF Talk
            <3>2. QED BY <2>1, <2>2, <3>1, Zenon DEF TalkOf
      <2>5. QED BY <2>3, <2>4, SameTalk, Zenon DEF Talk
<1>5. CASE IpWriteFails(c)
      <2>1. /\ UNCHANGED <<client, req, conn, inCall, waiting, listed, blocked>>
            /\ reset' = reset \ {c} /\ ip.c = c /\ ip.at = "answer" /\ ip'.c = c
            BY <1>5, IpFields, Zenon DEF IpWriteFails, soVars, loopVars
      <2>2. ASSUME NEW d \in Socks, d # c PROVE Same(d)
            BY <2>1, <2>2, Zenon DEF Same, Answering
      <2>3. TalkOf(c)'
            <3>1. TalkOf(c) /\ Answering(c)
                  BY <2>1, Zenon DEF Talk, Answering
            <3>2. QED BY <2>1, <3>1, Zenon DEF TalkOf
      <2>4. QED BY <2>2, <2>3, SameTalk, Zenon DEF Talk
<1>6. CASE IpFinds(c) \/ IpUnregisters(c) \/ IpLocks(c) \/ IpPuts(c) \/ IpDestroys(c)
      <2>1. /\ UNCHANGED <<client, req, conn, inCall, reset, waiting, listed, blocked>>
            BY <1>6, Zenon DEF IpFinds, IpUnregisters, IpLocks, IpPuts, IpDestroys,
               clientVars, soVars, loopVars
      <2>2. \/ ip' = ip \/ ip'.at \notin {"unregister", "answer"}
            \/ ip'.c = ip.c /\ ip.at = "unregister"
            BY <1>6, IpFields, Zenon DEF IpFinds, IpUnregisters, IpLocks, IpPuts, IpDestroys
      <2>3. ASSUME NEW d \in Socks PROVE Same(d)
            BY <2>1, <2>2, Zenon DEF Same, Answering
      <2>4. QED BY <2>3, SameTalk, Zenon DEF Talk
<1>7. QED BY <1>2, <1>3, <1>4, <1>5, <1>6, Zenon

LEMMA TalkKept ==
    ASSUME Base, Talk, [Next]_vars
    PROVE  Talk'
<1>1. ASSUME NEW c \in Socks,
             \/ Opens(c) \/ Closes(c) \/ IpFinds(c) \/ IpEstab(c)
             \/ \E r \in {"connect", "sendto", "recvfrom"} : Calls(c, r)
             \/ \E unread \in BOOLEAN : Dies(c, unread)
      PROVE  Talk'
      BY <1>1, ClientTalk, IpTalk, Zenon
<1>2. CASE LoopThread
      BY <1>2, StillTalk, HandlerTalk, CallbackTalk, Zenon DEF LoopThread
<1>3. CASE IpThread
      BY <1>3, IpTalk, Zenon DEF IpThread
<1>4. QED BY <1>1, <1>2, <1>3, StillTalk, Zenon DEF Next
-----------------------------------------------------------------------------
\* A step of c's call that a failed write may end: a listed channel leaves the
\* registry only when its client died.
LEMMA DropsAreDead ==
    ASSUME Talk, Watched, NEW c \in Socks, listed \subseteq Socks,
           owned \ {h \in {<<c, "chan">>} : client[c] \in Gone} \subseteq owned',
           req[c] # "none" \/ c \in reset \/ blocked = c \/ Answering(c),
           UNCHANGED <<client, listed>>
    PROVE  Watched'
<1>1. client[c] \in Gone => client[c] = "dead"
      <2>1. TalkOf(c) /\ (client[c] \in Gone => client[c] # "open")
            BY Zenon DEF Talk, Gone
      <2>2. QED BY <2>1, Zenon DEF TalkOf
<1>2. ASSUME NEW d \in listed PROVE <<d, "chan">> \in owned' \/ client[d] = "dead"
      <2>1. <<d, "chan">> = <<c, "chan">> => d = c
            BY Zenon
      <2>2. QED BY <1>1, <2>1, Zenon DEF Watched
<1>3. QED BY <1>2, Zenon DEF Watched

LEMMA WatchedKept ==
    ASSUME Base, Talk, Watched, Doomed, [Next]_vars
    PROVE  Watched'
<1>1. listed \subseteq Socks /\ client \in [Socks -> {"none", "open"} \cup Gone]
      BY Zenon DEF Base, TypeOK
<1>2. ASSUME NEW c \in Socks,
             \/ Opens(c) \/ Closes(c) \/ \E unread \in BOOLEAN : Dies(c, unread)
             \/ \E r \in {"connect", "sendto", "recvfrom"} : Calls(c, r)
      PROVE  Watched'
      <2>1. /\ UNCHANGED <<listed, owned>>
            /\ \/ client' = client
               \/ client[c] # "dead" /\ \E v : client' = [client EXCEPT ![c] = v]
            BY <1>2, Zenon DEF Opens, Closes, Dies, Calls, registry
      <2>2. ASSUME NEW d \in listed, client[d] = "dead" PROVE client'[d] = "dead"
            BY <1>1, <2>1, <2>2, Zenon
      <2>3. QED BY <2>1, <2>2, Zenon DEF Watched
<1>3. ASSUME NEW c \in Socks,
             \/ SocketCall(c) \/ ConnectCall(c) \/ SendtoCall(c) \/ RecvfromCall(c)
             \/ ReadFails(c) \/ TakeFromRecvQ(c)
      PROVE  Watched'
      <2>1. \E made : UpdateRegistry(made, WriteDrops(c))
            BY <1>3, Zenon DEF SocketCall, ConnectCall, SendtoCall, RecvfromCall, ReadFails,
               TakeFromRecvQ, OnRequest
      <2>2. /\ UNCHANGED <<client, listed>>
            /\ req[c] # "none" \/ c \in reset \/ blocked = c
            BY <1>3, Zenon DEF SocketCall, ConnectCall, SendtoCall, RecvfromCall, ReadFails,
               TakeFromRecvQ, OnRequest
      <2>3. owned \ {h \in {<<c, "chan">>} : client[c] \in Gone} \subseteq owned'
            BY <2>1, Zenon DEF UpdateRegistry, WriteDrops
      <2>4. QED BY <1>1, <2>2, <2>3, DropsAreDead, Zenon
<1>4. CASE OnNewConnections
      <2>1. /\ listed' = listed \cup Backlog /\ client' = client
            /\ owned \cup (Backlog \X {"chan"}) \subseteq owned'
            BY <1>4, Zenon DEF OnNewConnections, UpdateRegistry, clientVars
      <2>2. QED BY <2>1, Zenon DEF Watched
<1>5. ASSUME NEW c \in Socks, OnEof(c) PROVE Watched'
      <2>1. Range(Dying(c, listed \ {c}, IpHolds(c))) \subseteq Of(c)
            BY DyingHandles, Zenon
      <2>2. /\ listed' = listed \ {c} /\ client' = client /\ owned \ Of(c) \subseteq owned'
            BY <1>5, <2>1, Zenon DEF OnEof, DestroyHandles, clientVars, registry
      <2>3. ASSUME NEW d \in listed \ {c} PROVE <<d, "chan">> \notin Of(c)
            BY <2>3 DEF Of
      <2>4. QED BY <2>2, <2>3, Zenon DEF Watched
<1>6. ASSUME NEW c \in Socks, IpUnregisters(c) PROVE Watched'
      <2>1. UNCHANGED <<listed, client>> /\ owned \ {<<c, "estab">>} \subseteq owned'
            BY <1>6, Zenon DEF IpUnregisters, clientVars
      <2>2. \A d : <<d, "chan">> # <<c, "estab">>
            BY Zenon
      <2>3. QED BY <2>1, <2>2, Zenon DEF Watched
<1>7. ASSUME NEW c \in Socks, IpWriteFails(c) PROVE Watched'
      <2>1. /\ UNCHANGED <<listed, client>> /\ Answering(c) /\ client[c] \in Gone
            /\ owned \ {<<c, "chan">>} \subseteq owned'
            BY <1>7, Zenon DEF IpWriteFails, Answering
      <2>2. owned \ {h \in {<<c, "chan">>} : client[c] \in Gone} \subseteq owned'
            BY <2>1, Zenon
      <2>3. QED BY <1>1, <2>1, <2>2, DropsAreDead, Zenon
<1>8. ASSUME NEW c \in Socks, IpDestroys(c) PROVE Watched'
      <2>1. /\ UNCHANGED <<listed, client>> /\ ip.at = "destroy" /\ ip.c = c
            /\ owned \ {Head(doomed)} \subseteq owned'
            BY <1>8, Zenon DEF IpDestroys, clientVars
      <2>2. c \notin listed /\ Head(doomed) \in Of(c)
            <3>1. c \notin listed /\ Range(doomed) \subseteq Of(c)
                  BY <2>1, Zenon DEF Doomed
            <3>2. doomed \in Seq(Handles) /\ doomed # <<>>
                  BY <2>1, Zenon DEF Base, TypeOK, IpShape
            <3>3. Head(doomed) \in Range(doomed)
                  BY <3>2 DEF Range
            <3>4. QED BY <3>1, <3>3, Zenon
      <2>3. ASSUME NEW d \in listed PROVE <<d, "chan">> # Head(doomed)
            BY <2>2, <2>3 DEF Of
      <2>4. QED BY <2>1, <2>3, Zenon DEF Watched
<1>9. ASSUME \/ UNCHANGED vars \/ PollFails
             \/ \E hs \in SUBSET Ready : Poll(hs)
             \/ \E h \in Handles : DispatchDestroyed(h)
             \/ \E c \in Socks : \/ SChannelReadCb(c) \/ IpFinds(c) \/ IpEstab(c)
                                 \/ IpAnswers(c) \/ IpLocks(c) \/ IpPuts(c) \/ IpReleases(c)
      PROVE  Watched'
      <2>1. UNCHANGED <<listed, client, owned>>
            BY <1>9, Zenon DEF vars, PollFails, Poll, DispatchDestroyed, SChannelReadCb, IpFinds,
               IpEstab, IpAnswers, IpLocks, IpPuts, IpReleases, clientVars, registry
      <2>2. QED BY <2>1, Zenon DEF Watched
<1>10. CASE LoopThread
      BY <1>3, <1>4, <1>5, <1>9, <1>10, Zenon DEF LoopThread
<1>11. CASE IpThread
      BY <1>6, <1>7, <1>8, <1>9, <1>11, Zenon DEF IpThread
<1>12. QED BY <1>2, <1>9, <1>10, <1>11, Zenon DEF Next

LEMMA DoomedKept ==
    ASSUME Base, Doomed, [Next]_vars
    PROVE  Doomed'
<1>1. ASSUME listed' \subseteq listed, ip' = ip, doomed' = doomed PROVE Doomed'
      BY <1>1, Zenon DEF Doomed
<1>2. CASE OnNewConnections
      <2>1. listed' = listed \cup Backlog /\ UNCHANGED <<ip, doomed>>
            BY <1>2, Zenon DEF OnNewConnections, ipVars
      <2>2. ASSUME ip.at = "destroy" PROVE ip.c \notin Backlog
            <3>1. ip.c \in Socks /\ ip.c \notin listed
                  BY <2>2, Zenon DEF Base, IpShape, Doomed
            <3>2. req[ip.c] = "none"
                  BY <3>1, Zenon DEF Base, Accepted
            <3>3. QED BY <3>2, Zenon DEF Backlog
      <2>3. QED BY <2>1, <2>2, Zenon DEF Doomed
<1>3. ASSUME NEW c \in Socks,
             \/ IpFinds(c) \/ IpEstab(c) \/ IpUnregisters(c) \/ IpAnswers(c)
             \/ IpWriteFails(c) \/ IpLocks(c) \/ IpPuts(c)
      PROVE  Doomed'
      <2>1. UNCHANGED <<listed, ip, doomed>> \/ ip'.at # "destroy"
            BY <1>3, IpFields, Zenon DEF IpFinds, IpEstab, IpUnregisters, IpAnswers, IpWriteFails,
               IpLocks, IpPuts
      <2>2. QED BY <1>1, <2>1, Zenon DEF Doomed
<1>4. ASSUME NEW c \in Socks, IpReleases(c) PROVE Doomed'
      <2>1. /\ Range(Dying(c, listed, {})) \subseteq Of(c)
            /\ c \in listed => Dying(c, listed, {}) = <<>>
            BY DyingHandles, Zenon
      <2>2. /\ doomed' = Dying(c, listed, {}) /\ listed' = listed
            /\ \/ Dying(c, listed, {}) = <<>> /\ ip'.at = "idle"
               \/ Dying(c, listed, {}) # <<>> /\ ip'.c = c
            BY <1>4, IpFields, Zenon DEF IpReleases
      <2>3. ip'.at = "destroy" => ip'.c = c /\ c \notin listed
            BY <2>1, <2>2, Zenon
      <2>4. QED BY <2>1, <2>2, <2>3, Zenon DEF Doomed
<1>5. ASSUME NEW c \in Socks, IpDestroys(c) PROVE Doomed'
      <2>1. ip.at = "destroy" /\ listed' = listed
            BY <1>5, Zenon DEF IpDestroys
      <2>2. \/ UNCHANGED <<ip, doomed>>
            \/ doomed' = Tail(doomed) /\ ip'.at = "idle"
            \/ doomed' = Tail(doomed) /\ ip' = ip
            BY <1>5, IpFields, Zenon DEF IpDestroys
      <2>3. Range(Tail(doomed)) \subseteq Range(doomed)
            <3>1. doomed \in Seq(Handles) /\ doomed # <<>>
                  BY <2>1, Zenon DEF Base, TypeOK, IpShape
            <3>2. QED BY <3>1 DEF Range
      <2>4. ip'.at = "destroy" => ip' = ip
            BY <2>2, Zenon
      <2>5. QED BY <2>1, <2>2, <2>3, <2>4, Zenon DEF Doomed
<1>6. ASSUME \/ UNCHANGED vars \/ PollFails
             \/ \E hs \in SUBSET Ready : Poll(hs)
             \/ \E h \in Handles : DispatchDestroyed(h)
             \/ \E c \in Socks :
                   \/ Opens(c) \/ Closes(c) \/ \E unread \in BOOLEAN : Dies(c, unread)
                   \/ \E r \in {"connect", "sendto", "recvfrom"} : Calls(c, r)
                   \/ SocketCall(c) \/ ConnectCall(c) \/ SendtoCall(c) \/ RecvfromCall(c)
                   \/ ReadFails(c) \/ OnEof(c) \/ SChannelReadCb(c) \/ TakeFromRecvQ(c)
      PROVE  Doomed'
      <2>1. listed' \subseteq listed /\ UNCHANGED <<ip, doomed>>
            BY <1>6, Zenon DEF vars, PollFails, Poll, DispatchDestroyed, Opens, Closes, Dies, Calls,
               SocketCall, ConnectCall, SendtoCall, RecvfromCall, OnRequest, ReadFails, OnEof,
               SChannelReadCb, TakeFromRecvQ, ipVars
      <2>2. QED BY <1>1, <2>1, Zenon
<1>7. CASE LoopThread
      BY <1>2, <1>6, <1>7, Zenon DEF LoopThread
<1>8. CASE IpThread
      BY <1>3, <1>4, <1>5, <1>8, Zenon DEF IpThread
<1>9. QED BY <1>3, <1>6, <1>7, <1>8, Zenon DEF Next
-----------------------------------------------------------------------------
LEMMA Initially == Init => IInv
<1>1. SUFFICES ASSUME Init PROVE IInv
      BY Zenon
<1>2. ip.at = "idle" /\ ip.c = NoSock /\ ip.holds = {} /\ Range(doomed) = {}
      BY <1>1 DEF Init, Range
<1>3. TypeOK
      <2>1. ip \in [at : IpAt, c : Socks \cup {NoSock}, holds : SUBSET {"chan", "so", "pcb"}]
            BY <1>1, Zenon DEF Init, IpAt
      <2>2. queued \in [Socks -> 0..MaxQueued]
            BY <1>1, ReactorAssumption DEF Init
      <2>3. doomed \in Seq(Handles)
            BY <1>1 DEF Init
      <2>4. QED BY <1>1, <2>1, <2>2, <2>3, Zenon DEF Init, TypeOK
<1>4. IpShape /\ ErasingShape /\ RegistryExact
      BY <1>1, <1>2, Zenon DEF Init, IpShape, ErasingShape, RegistryExact
<1>5. Accepted /\ BatchReady /\ DeadIsClosed /\ Kept /\ CrashCause
      BY <1>1, <1>2, ReactorAssumption, Zenon
      DEF Init, Accepted, BatchReady, DeadIsClosed, Kept, CrashCause
<1>6. Talk /\ Watched /\ Doomed
      BY <1>1, <1>2, ReactorAssumption, Zenon DEF Init, Talk, TalkOf, Answering, Watched, Doomed
<1>7. QED BY <1>3, <1>4, <1>5, <1>6, Zenon DEF IInv, Base

LEMMA Inductive == IInv /\ [Next]_vars => IInv'
BY BaseKept, TalkKept, WatchedKept, DoomedKept, Zenon DEF IInv

\* The inductive invariant holds in every state: what the two threads keep of the
\* handles, the references and the registry, and what a call keeps of its client.
THEOREM Invariance == Spec => []IInv
BY Initially, Inductive, PTL DEF Spec

\* Every variable keeps its type; in particular takeFromRecvQ never takes from
\* an empty queue and the IP thread destroys no handle twice.
THEOREM TypeCorrect == Spec => []TypeOK
<1>1. IInv => TypeOK
      BY Zenon DEF IInv, Base
<1>2. QED BY <1>1, Invariance, PTL

\* Until the two threads meet in EventReactor::channels, the vector, epoll and
\* ownerLoop agree and only living handles are registered, for any sockets.
THEOREM RegistryIsExact == Spec => []RegistryExact
<1>1. IInv => RegistryExact
      BY Zenon DEF IInv, Base
<1>2. QED BY <1>1, Invariance, PTL

\* The daemon uses freed memory or a null socket only after a client has gone or
\* after such a meeting: no reference count drops to zero under an open socket.
THEOREM CrashesAreCaused == Spec => []CrashNeedsCloseOrRace
<1>1. IInv => CrashNeedsCloseOrRace
      BY Zenon DEF IInv, Base, CrashCause, DeadIsClosed, CrashNeedsCloseOrRace
<1>2. QED BY <1>1, Invariance, PTL

\* Between packets no handle outlives its place in Arbiter's list, and unless the
\* threads have met only a client that died in a call has left a channel there
\* that nothing watches.
THEOREM NothingIsOrphaned == Spec => []NoOrphan
<1>1. ASSUME IInv, ip.at = "idle", NEW h \in live
      PROVE  h[1] \in listed /\ (<<h[1], "chan">> \in epoll \/ client[h[1]] = "dead" \/ raced)
      <2>1. h[1] \in listed
            BY <1>1, Zenon DEF IInv, Base, Kept
      <2>2. erasing = {}
            BY <1>1, Zenon DEF IInv, Base, ErasingShape
      <2>3. ~raced => epoll = owned
            BY <1>1, <2>2 DEF IInv, Base, RegistryExact
      <2>4. QED BY <1>1, <2>1, <2>3, Zenon DEF IInv, Watched
<1>2. IInv => NoOrphan
      BY <1>1, Zenon DEF NoOrphan
<1>3. QED BY <1>2, Invariance, PTL
=============================================================================
