----------------------------- MODULE FdsProofs ------------------------------
(***************************************************************************)
(* The theorems about module Fds, for any number of threads, any range,    *)
(* any limit on the kernel's descriptors and any number of calls.          *)
(*                                                                         *)
(* The inductive invariant is IInv.  Counting bounds the counter and the   *)
(* descriptors in the hands of threads by the number of calls; Fresh says  *)
(* that in a process without a race those descriptors are new and nobody   *)
(* else's; Mapped says the same of the channels; Entered says that the     *)
(* channel of a thread that waits for the daemon is in the table.          *)
(***************************************************************************)
EXTENDS Fds, FiniteSetTheorems, TLAPS

CountingThr(t) ==
    /\ thr[t].at # "idle" => run[Proc(t)] = "up"
    /\ thr[t].at = "inc" =>
          StartFd <= thr[t].fd /\ thr[t].fd <= StartFd + made[Proc(t)]
    /\ thr[t].at \in {"open", "set", "ask"} =>
          StartFd <= thr[t].fd /\ thr[t].fd < StartFd + made[Proc(t)]
    /\ thr[t].at = "ask" /\ thr[t].fd \notin VeloxFds => Proc(t) \in overrun

Counting ==
    /\ \A p \in Procs : last[p] < StartFd + made[p]
    /\ \A p \in Procs : run[p] = "up" => StartFd <= last[p] + 1
    /\ \A p \in Procs : run[p] = "none" =>
          /\ p \notin overrun /\ last[p] = 0
          /\ \A k \in KernelFds : kfds[p][k] \notin Chans
    /\ \A t \in AllThreads : CountingThr(t)
    /\ OverrunNeedsExhaustion

Fresh(p) ==
    /\ IsFiniteSet(given[p])
    /\ made[p] = Cardinality(given[p])
    /\ \A fd \in given[p] : fd <= last[p]
    /\ app[p] \subseteq given[p]
    /\ \A t \in AllThreads : Proc(t) = p =>
          /\ thr[t].at = "inc" =>
                /\ thr[t].fd = last[p] + 1
                /\ \A u \in AllThreads \ {t} : Proc(u) = p => thr[u].at # "inc"
          /\ thr[t].at \in {"open", "set", "ask"} =>
                /\ thr[t].fd \in given[p] \ app[p]
                /\ \A u \in AllThreads \ {t} :
                      Proc(u) = p /\ thr[u].at \in {"open", "set", "ask"} => thr[u].fd # thr[t].fd

\* While the daemon is asked the channel is in the table.
Entered(p) ==
    \A t \in AllThreads :
        Proc(t) = p /\ thr[t].at = "ask" /\ thr[t].fd \in VeloxFds => table[p][thr[t].fd] = thr[t].ch

Mapped(p) ==
    /\ \A k \in KernelFds : kfds[p][k] \in Chans =>
          /\ kfds[p][k] <= chans
          /\ \A j \in KernelFds \ {k} : kfds[p][j] # kfds[p][k]
    /\ \A fd \in app[p] :
          /\ kfds[p][table[p][fd]] \in Chans
          /\ \A other \in app[p] \ {fd} : table[p][fd] # table[p][other]
    /\ \A t \in AllThreads : Proc(t) = p /\ thr[t].at \in {"set", "ask", "close"} =>
          /\ kfds[p][thr[t].ch] \in Chans
          /\ \A fd \in app[p] : table[p][fd] # thr[t].ch
          /\ \A u \in AllThreads \ {t} :
                Proc(u) = p /\ thr[u].at \in {"set", "ask", "close"} => thr[u].ch # thr[t].ch

IInv ==
    /\ TypeOK
    /\ Counting
    /\ \A p \in Procs \ raced : Fresh(p)
    /\ \A p \in Procs \ raced : Mapped(p) /\ Entered(p)
    /\ NoChannelLost
-----------------------------------------------------------------------------
LEMMA ConstantTypes ==
    /\ StartFd \in Nat /\ FdCount \in Nat /\ OpenMax \in Nat /\ MaxSockets \in Nat
    /\ 0 \in KernelFds /\ 1 <= StartFd
BY FdsAssumption DEF KernelFds

LEMMA FileKinds ==
    /\ Free \notin Chans /\ File \notin Chans /\ ProcChan \notin Chans
    /\ {Free, File, ProcChan} \subseteq Free..ProcChan
    /\ Free..ProcChan \subseteq Nat
BY FdsAssumption DEF Free, File, ProcChan, Chans

LEMMA RangeType == VeloxFds \subseteq Nat
BY FdsAssumption DEF VeloxFds

LEMMA ProcType == \A t \in AllThreads : Proc(t) \in Procs
BY Zenon DEF Proc, Procs

LEMMA EndsType ==
    ASSUME TypeOK, NEW p \in Procs, Ends(p)
    PROVE  /\ run' \in [Procs -> {"none", "up", "gone"}]
           /\ kfds' \in [Procs -> [KernelFds -> Free..ProcChan]]
           /\ thr' \in [AllThreads -> [at : {"idle", "inc", "open", "set", "ask", "close"},
                                       fd : Nat, ch : KernelFds]]
           /\ app' \in [Procs -> SUBSET VeloxFds]
BY ConstantTypes, FileKinds, Zenon DEF TypeOK, Ends, Idle, At

LEMMA TypeStep == TypeOK /\ [Next]_vars => TypeOK'
<1> SUFFICES ASSUME TypeOK, [Next]_vars PROVE TypeOK'
    BY Zenon
<1> USE ConstantTypes, FileKinds, RangeType, ProcType
<1>1. CASE Start
      BY <1>1 DEF Start, TypeOK, Procs
<1>2. ASSUME NEW t \in AllThreads, SocketLoads(t) PROVE TypeOK'
      BY <1>2 DEF SocketLoads, At, TypeOK
<1>3. ASSUME NEW t \in AllThreads, SocketStores(t) PROVE TypeOK'
      BY <1>3 DEF SocketStores, At, TypeOK
<1>4. ASSUME NEW t \in AllThreads, NEW k \in KernelFds, SocketOpens(t, k) PROVE TypeOK'
      <2>1. chans' \in 0..MaxSockets /\ chans' \in Free..ProcChan
            BY <1>4 DEF SocketOpens, TypeOK, Free, ProcChan
      <2>2. QED BY <1>4, <2>1, Zenon DEF SocketOpens, At, TypeOK
<1>5. ASSUME NEW t \in AllThreads, SocketFails(t) PROVE TypeOK'
      BY <1>5, EndsType, Zenon DEF SocketFails, TypeOK
<1>6. ASSUME NEW t \in AllThreads, SocketSets(t) PROVE TypeOK'
      BY <1>6, Zenon DEF SocketSets, TypeOK, is_assigned_by_velox, At
<1>15. ASSUME NEW t \in AllThreads, SocketReturns(t) PROVE TypeOK'
      BY <1>15, Zenon DEF SocketReturns, TypeOK, is_assigned_by_velox, Idle, At
<1>7. ASSUME NEW t \in AllThreads, SocketOverruns(t) PROVE TypeOK'
      <2>1. overrun' \in SUBSET Procs
            BY <1>7, Zenon DEF SocketOverruns, TypeOK
      <2>2. CASE Ends(Proc(t))
            BY <1>7, <2>1, <2>2, EndsType, Zenon DEF SocketOverruns, TypeOK
      <2>3. CASE thr' = [thr EXCEPT ![t] = At("ask", @.fd, @.ch)] /\ UNCHANGED <<run, kfds, app>>
            BY <1>7, <2>1, <2>3, Zenon DEF SocketOverruns, TypeOK, At
      <2>4. QED BY <1>7, <2>2, <2>3, Zenon DEF SocketOverruns
<1>8. ASSUME NEW t \in AllThreads, NEW fd \in VeloxFds, CloseUnsets(t, fd) PROVE TypeOK'
      BY <1>8 DEF CloseUnsets, At, TypeOK
<1>9. ASSUME NEW t \in AllThreads, CloseChan(t) PROVE TypeOK'
      BY <1>9, Zenon DEF CloseChan, TypeOK, Idle, At
<1>10. ASSUME NEW t \in AllThreads, NEW k \in KernelFds, OpensFile(t, k) PROVE TypeOK'
      BY <1>10, Zenon DEF OpensFile, TypeOK
<1>11. ASSUME NEW t \in AllThreads, NEW k \in KernelFds, ClosesFile(t, k) PROVE TypeOK'
      BY <1>11, Zenon DEF ClosesFile, TypeOK
<1>12. ASSUME NEW t \in AllThreads, Fork(t) PROVE TypeOK'
      <2>1. torn' \in BOOLEAN
            BY <1>12, Zenon DEF Fork
      <2>2. QED BY <1>12, <2>1, Zenon DEF Fork, TypeOK, Procs
<1>13. CASE UNCHANGED vars
      BY <1>13, Zenon DEF vars, TypeOK
<1>14. QED
      BY <1>1, <1>2, <1>3, <1>4, <1>5, <1>6, <1>7, <1>8, <1>9, <1>10, <1>11, <1>12, <1>13, <1>15,
         Zenon DEF Next

LEMMA CountingStep == TypeOK /\ Counting /\ [Next]_vars => Counting'
<1> SUFFICES ASSUME TypeOK, Counting, [Next]_vars PROVE Counting'
    BY Zenon
<1> USE ConstantTypes, ProcType DEF Counting, CountingThr, OverrunNeedsExhaustion
<1>1. CASE Start
      BY <1>1 DEF Start, TypeOK, Procs
<1>2. ASSUME NEW t \in AllThreads, SocketLoads(t) PROVE Counting'
      BY <1>2 DEF SocketLoads, At, TypeOK
<1>3. ASSUME NEW t \in AllThreads, SocketStores(t) PROVE Counting'
      BY <1>3 DEF SocketStores, At, TypeOK
<1>4. ASSUME NEW t \in AllThreads, NEW k \in KernelFds, SocketOpens(t, k) PROVE Counting'
      BY <1>4, Zenon DEF SocketOpens, At, TypeOK
<1>5. ASSUME NEW t \in AllThreads, SocketFails(t) PROVE Counting'
      BY <1>5, Zenon DEF SocketFails, Ends, Idle, At, TypeOK
<1>6. ASSUME NEW t \in AllThreads, SocketSets(t) PROVE Counting'
      BY <1>6, Zenon DEF SocketSets, is_assigned_by_velox, At, TypeOK
<1>15. ASSUME NEW t \in AllThreads, SocketReturns(t) PROVE Counting'
      BY <1>15, Zenon DEF SocketReturns, Idle, At, TypeOK
<1>7. ASSUME NEW t \in AllThreads, SocketOverruns(t) PROVE Counting'
      <2>1. made[Proc(t)] > FdCount
            BY <1>7 DEF SocketOverruns, is_assigned_by_velox, VeloxFds, TypeOK
      <2>2. OverrunNeedsExhaustion'
            BY <1>7, <2>1, Zenon DEF SocketOverruns, TypeOK
      <2>3. CASE Ends(Proc(t))
            BY <1>7, <2>2, <2>3, Zenon DEF SocketOverruns, Ends, Idle, At, TypeOK
      <2>4. CASE thr' = [thr EXCEPT ![t] = At("ask", @.fd, @.ch)] /\ UNCHANGED <<run, kfds, app>>
            BY <1>7, <2>2, <2>4, Zenon DEF SocketOverruns, At, TypeOK
      <2>5. QED BY <1>7, <2>3, <2>4, Zenon DEF SocketOverruns
<1>8. ASSUME NEW t \in AllThreads, NEW fd \in VeloxFds, CloseUnsets(t, fd) PROVE Counting'
      BY <1>8, Zenon DEF CloseUnsets, At, TypeOK
<1>9. ASSUME NEW t \in AllThreads, CloseChan(t) PROVE Counting'
      BY <1>9, Zenon DEF CloseChan, Idle, At, TypeOK
<1>10. ASSUME NEW t \in AllThreads, NEW k \in KernelFds, OpensFile(t, k) PROVE Counting'
      BY <1>10, Zenon DEF OpensFile, TypeOK
<1>11. ASSUME NEW t \in AllThreads, NEW k \in KernelFds, ClosesFile(t, k) PROVE Counting'
      BY <1>11, Zenon DEF ClosesFile, TypeOK
<1>12. ASSUME NEW t \in AllThreads, Fork(t) PROVE Counting'
      <2>1. \A u \in AllThreads : CountingThr(u)'
            BY <1>12, Zenon DEF Fork, TypeOK, Proc, Procs
      <2>2. OverrunNeedsExhaustion'
            BY <1>12, Zenon DEF Fork, TypeOK, Procs
      <2>3. QED
            BY <1>12, <2>1, <2>2, Zenon DEF Fork, TypeOK, Procs
<1>13. CASE UNCHANGED vars
      BY <1>13, Zenon DEF vars
<1>14. QED
      BY <1>1, <1>2, <1>3, <1>4, <1>5, <1>6, <1>7, <1>8, <1>9, <1>10, <1>11, <1>12, <1>13, <1>15,
         Zenon DEF Next

LEMMA FreshStep ==
    ASSUME IInv, [Next]_vars, NEW q \in Procs \ raced'
    PROVE  Fresh(q)'
<1> USE ConstantTypes, ProcType
<1>1. q \in Procs /\ TypeOK /\ Counting /\ (q \notin raced => Fresh(q))
      BY Zenon DEF IInv
<1>2. CASE Start
      BY <1>1, <1>2 DEF Start, Fresh, TypeOK, Counting, CountingThr, Procs, Proc
<1>3. ASSUME NEW t \in AllThreads, SocketLoads(t) PROVE Fresh(q)'
      <2>1. q \notin raced /\ Fresh(q)
            BY <1>1, <1>3, Zenon DEF SocketLoads
      <2>2. CASE q = Proc(t)
            BY <1>1, <1>3, <2>1, <2>2 DEF SocketLoads, At, Fresh, TypeOK
      <2>3. CASE q # Proc(t)
            BY <1>1, <1>3, <2>1, <2>3 DEF SocketLoads, At, Fresh, TypeOK
      <2>4. QED BY <2>2, <2>3, Zenon
<1>4. ASSUME NEW t \in AllThreads, SocketStores(t) PROVE Fresh(q)'
      <2>1. q \notin raced /\ Fresh(q)
            BY <1>1, <1>4, Zenon DEF SocketStores
      <2>2. CASE q = Proc(t)
            <3>1. thr[t].fd = last[q] + 1 /\ thr[t].fd \notin given[q]
                  BY <1>1, <1>4, <2>1, <2>2 DEF SocketStores, Fresh, TypeOK
            <3>2. given'[q] = given[q] \cup {thr[t].fd} /\ made'[q] = made[q] + 1
                  BY <1>1, <1>4, <2>2, Zenon DEF SocketStores, TypeOK
            <3>3. IsFiniteSet(given'[q]) /\ Cardinality(given'[q]) = Cardinality(given[q]) + 1
                  <4>1. IsFiniteSet(given[q])
                        BY <2>1, Zenon DEF Fresh
                  <4>2. /\ IsFiniteSet(given[q] \cup {thr[t].fd})
                        /\ Cardinality(given[q] \cup {thr[t].fd}) = Cardinality(given[q]) + 1
                        BY <3>1, <4>1, FS_AddElement, Zenon
                  <4>3. QED BY <3>2, <4>2, Zenon
            <3>4. last'[q] = thr[t].fd /\ app' = app
                  BY <1>1, <1>4, <2>2, Zenon DEF SocketStores, TypeOK
            <3>5. \A fd \in given'[q] : fd <= last'[q]
                  BY <1>1, <2>1, <3>1, <3>2, <3>4 DEF Fresh, TypeOK
            <3>6. ASSUME NEW u \in AllThreads, Proc(u) = q
                  PROVE  /\ thr'[u].at # "inc"
                         /\ thr'[u].at \in {"open", "set", "ask"} =>
                               /\ thr'[u].fd \in given'[q] \ app'[q]
                               /\ \A v \in AllThreads \ {u} :
                                     Proc(v) = q /\ thr'[v].at \in {"open", "set", "ask"}
                                        => thr'[v].fd # thr'[u].fd
                  <4>1. thr'[t] = At("open", thr[t].fd, 0)
                        BY <1>1, <1>4, Zenon DEF SocketStores, TypeOK
                  <4>2. \A v \in AllThreads \ {t} : thr'[v] = thr[v]
                        BY <1>1, <1>4, Zenon DEF SocketStores, TypeOK
                  <4>3. CASE u = t
                        <5>1. /\ thr'[u].at = "open" /\ thr'[u].fd = last[q] + 1
                              /\ thr'[u].fd \in given'[q] \ app'[q]
                              BY <2>1, <3>1, <3>2, <3>4, <4>1, <4>3 DEF Fresh, At
                        <5>2. \A v \in AllThreads \ {u} :
                                 Proc(v) = q /\ thr'[v].at \in {"open", "set", "ask"} =>
                                    thr'[v].fd \in given[q]
                              BY <2>1, <4>2, <4>3, Zenon DEF Fresh
                        <5>3. thr'[u].fd \notin given[q]
                              BY <3>1, <5>1, Zenon
                        <5>4. QED BY <5>1, <5>2, <5>3, Zenon
                  <4>4. CASE u # t
                        <5>1. thr'[u] = thr[u]
                              BY <4>2, <4>4, Zenon
                        <5>2. thr'[u].at # "inc"
                              <6>1. thr[t].at = "inc"
                                    BY <1>4, Zenon DEF SocketStores
                              <6>2. QED BY <2>1, <2>2, <3>6, <4>4, <5>1, <6>1, Zenon DEF Fresh
                        <5>3. ASSUME thr'[u].at \in {"open", "set", "ask"}
                              PROVE  /\ thr'[u].fd \in given'[q] \ app'[q]
                                     /\ thr'[u].fd \in given[q]
                              BY <2>1, <3>2, <3>4, <3>6, <5>1, <5>3, Zenon DEF Fresh
                        <5>4. ASSUME thr'[u].at \in {"open", "set", "ask"}, NEW v \in AllThreads \ {u},
                                     Proc(v) = q, thr'[v].at \in {"open", "set", "ask"}
                              PROVE  thr'[v].fd # thr'[u].fd
                              <6>1. CASE v = t
                                    BY <3>1, <4>1, <5>3, <5>4, <6>1 DEF At
                              <6>2. CASE v # t
                                    <7>1. thr'[v] = thr[v]
                                          BY <4>2, <6>2, Zenon
                                    <7>2. QED BY <2>1, <3>6, <5>1, <5>4, <7>1, Zenon DEF Fresh
                              <6>3. QED BY <6>1, <6>2, Zenon
                        <5>5. QED BY <5>2, <5>3, <5>4, Zenon
                  <4>5. QED BY <4>3, <4>4, Zenon
            <3>7. app'[q] \subseteq given'[q]
                  BY <2>1, <3>2, <3>4, Zenon DEF Fresh
            <3>8. QED BY <2>1, <3>2, <3>3, <3>5, <3>6, <3>7, Zenon DEF Fresh
      <2>3. CASE q # Proc(t)
            BY <1>1, <1>4, <2>1, <2>3 DEF SocketStores, At, Fresh, TypeOK
      <2>4. QED BY <2>2, <2>3, Zenon
<1>5. ASSUME NEW t \in AllThreads, NEW k \in KernelFds, SocketOpens(t, k) PROVE Fresh(q)'
      BY <1>1, <1>5 DEF SocketOpens, At, Fresh, TypeOK
<1>6. ASSUME NEW p \in Procs, Ends(p), UNCHANGED <<last, given, made, raced>> PROVE Fresh(q)'
      BY <1>1, <1>6, Zenon DEF Ends, Idle, At, Fresh, TypeOK
<1>7. ASSUME NEW t \in AllThreads, SocketSets(t) PROVE Fresh(q)'
      BY <1>1, <1>7 DEF SocketSets, At, Fresh, TypeOK
<1>16. ASSUME NEW t \in AllThreads, SocketReturns(t) PROVE Fresh(q)'
      BY <1>1, <1>16 DEF SocketReturns, Idle, At, Fresh, TypeOK
<1>8. ASSUME NEW t \in AllThreads, SocketOverruns(t) PROVE Fresh(q)'
      <2>1. CASE thr' = [thr EXCEPT ![t] = At("ask", @.fd, @.ch)] /\ UNCHANGED <<run, kfds, app>>
            BY <1>1, <1>8, <2>1 DEF SocketOverruns, At, Fresh, TypeOK
      <2>2. QED BY <1>6, <1>8, <2>1, Zenon DEF SocketOverruns
<1>9. ASSUME NEW t \in AllThreads, NEW fd \in VeloxFds, CloseUnsets(t, fd) PROVE Fresh(q)'
      BY <1>1, <1>9 DEF CloseUnsets, At, Fresh, TypeOK
<1>10. ASSUME NEW t \in AllThreads, CloseChan(t) PROVE Fresh(q)'
      BY <1>1, <1>10 DEF CloseChan, Idle, At, Fresh, TypeOK
<1>11. ASSUME NEW t \in AllThreads, NEW k \in KernelFds, OpensFile(t, k) \/ ClosesFile(t, k)
       PROVE  Fresh(q)'
      BY <1>1, <1>11 DEF OpensFile, ClosesFile, Fresh
<1>12. ASSUME NEW t \in AllThreads, Fork(t) PROVE Fresh(q)'
      <2>1. CASE q = "parent"
            BY <1>1, <1>12, <2>1 DEF Fork, Fresh, TypeOK, Procs
      <2>2. CASE q = "child"
            <3>1. "parent" \notin raced /\ Fresh("parent")
                  BY <1>12, <2>2, Zenon DEF Fork, IInv, Procs
            <3>2. \A u \in AllThreads : Proc(u) = "child" => thr'[u].at = "idle"
                  BY <1>1, <1>12, Zenon DEF Fork, Counting, CountingThr, Procs
            <3>3. /\ given'[q] = given["parent"] /\ made'[q] = made["parent"]
                  /\ last'[q] = last["parent"] /\ app'[q] = app["parent"]
                  BY <1>1, <1>12, <2>2, Zenon DEF Fork, TypeOK
            <3>4. QED BY <2>2, <3>1, <3>2, <3>3, Zenon DEF Fresh
      <2>3. QED BY <1>1, <2>1, <2>2, Zenon DEF Procs
<1>13. CASE UNCHANGED vars
      BY <1>1, <1>13, Zenon DEF vars, Fresh
<1>14. ASSUME NEW t \in AllThreads, SocketFails(t) PROVE Fresh(q)'
      BY <1>6, <1>14, Zenon DEF SocketFails
<1>15. QED
      BY <1>2, <1>3, <1>4, <1>5, <1>7, <1>8, <1>9, <1>10, <1>11, <1>12, <1>13, <1>14, <1>16,
         Zenon DEF Next
-----------------------------------------------------------------------------
\* The channels of a process stay as they are mapped when a step changes only
\* descriptors that are not channels and brings no thread to one.
LEMMA MappedKept ==
    ASSUME NEW q \in Procs, TypeOK, Mapped(q),
           app'[q] = app[q], chans' = chans,
           \A fd \in app[q] : table'[q][fd] = table[q][fd],
           \A k \in KernelFds :
              \/ kfds'[q][k] = kfds[q][k]
              \/ kfds[q][k] \notin Chans /\ kfds'[q][k] \notin Chans,
           \A u \in AllThreads : Proc(u) = q /\ thr'[u].at \in {"set", "ask", "close"} =>
              thr[u].at \in {"set", "ask", "close"} /\ thr'[u].ch = thr[u].ch
    PROVE  Mapped(q)'
<1>1. \A fd \in app[q] : table[q][fd] \in KernelFds
      BY DEF TypeOK
<1>2. \A u \in AllThreads : thr[u].ch \in KernelFds
      BY Zenon DEF TypeOK
<1>3. (\A k \in KernelFds : kfds[q][k] \in Chans =>
          /\ kfds[q][k] <= chans
          /\ \A j \in KernelFds \ {k} : kfds[q][j] # kfds[q][k])'
      BY DEF Mapped
<1>4. (\A fd \in app[q] :
          /\ kfds[q][table[q][fd]] \in Chans
          /\ \A other \in app[q] \ {fd} : table[q][fd] # table[q][other])'
      BY <1>1 DEF Mapped
<1>5. ASSUME NEW u \in AllThreads, Proc(u) = q, thr'[u].at \in {"set", "ask", "close"}
      PROVE  /\ kfds'[q][thr'[u].ch] \in Chans
             /\ \A fd \in app'[q] : table'[q][fd] # thr'[u].ch
             /\ \A v \in AllThreads \ {u} :
                   Proc(v) = q /\ thr'[v].at \in {"set", "ask", "close"} => thr'[v].ch # thr'[u].ch
      <2>1. thr[u].at \in {"set", "ask", "close"} /\ thr'[u].ch = thr[u].ch
            BY <1>5, Zenon
      <2>2. /\ kfds[q][thr[u].ch] \in Chans
            /\ \A fd \in app[q] : table[q][fd] # thr[u].ch
            /\ \A v \in AllThreads \ {u} :
                  Proc(v) = q /\ thr[v].at \in {"set", "ask", "close"} => thr[v].ch # thr[u].ch
            BY <1>5, <2>1, Zenon DEF Mapped
      <2>3. kfds'[q][thr'[u].ch] \in Chans
            BY <1>2, <2>1, <2>2, Zenon
      <2>5. ASSUME NEW v \in AllThreads \ {u}, Proc(v) = q, thr'[v].at \in {"set", "ask", "close"}
            PROVE  thr'[v].ch # thr'[u].ch
            <3>1. thr[v].at \in {"set", "ask", "close"} /\ thr'[v].ch = thr[v].ch
                  BY <2>5, Zenon
            <3>2. QED BY <2>1, <2>2, <2>5, <3>1, Zenon
      <2>4. QED BY <2>1, <2>2, <2>3, <2>5, Zenon
<1>6. QED BY <1>3, <1>4, <1>5, Zenon DEF Mapped

LEMMA MappedStep ==
    ASSUME IInv, [Next]_vars, NEW q \in Procs \ raced'
    PROVE  Mapped(q)'
<1> USE ConstantTypes, FileKinds, ProcType
<1>1. q \in Procs /\ TypeOK /\ Counting /\ (q \notin raced => Fresh(q) /\ Mapped(q) /\ Entered(q))
      BY Zenon DEF IInv
<1>2. CASE Start
      <2>1. PICK k \in KernelFds : /\ LowestFree("parent", k)
                                   /\ kfds' = [kfds EXCEPT !["parent"][k] = ProcChan]
            BY <1>2, Zenon DEF Start
      <2>2. \A j \in KernelFds :
               \/ kfds'[q][j] = kfds[q][j]
               \/ kfds[q][j] \notin Chans /\ kfds'[q][j] \notin Chans
            BY <1>1, <2>1 DEF LowestFree, TypeOK
      <2>3. UNCHANGED <<table, thr, app, chans, raced>>
            BY <1>2, Zenon DEF Start
      <2>4. Mapped(q)
            BY <1>1, <2>3, Zenon
      <2>5. QED BY <1>1, <2>2, <2>3, <2>4, MappedKept, Zenon
<1>3. ASSUME NEW t \in AllThreads, SocketLoads(t) PROVE Mapped(q)'
      <2>1. q \notin raced /\ UNCHANGED <<table, kfds, app, chans>>
            BY <1>3, Zenon DEF SocketLoads
      <2>2. \A u \in AllThreads :
               thr'[u] = IF u = t THEN At("inc", last[Proc(t)] + 1, 0) ELSE thr[u]
            BY <1>1, <1>3, Zenon DEF SocketLoads, TypeOK
      <2>3. \A u \in AllThreads : thr'[u].at \in {"set", "ask", "close"} => thr'[u] = thr[u]
            BY <2>2 DEF At
      <2>4. QED BY <1>1, <2>1, <2>3, MappedKept, Zenon
<1>4. ASSUME NEW t \in AllThreads, SocketStores(t) PROVE Mapped(q)'
      <2>1. q \notin raced /\ UNCHANGED <<table, kfds, app, chans>>
            BY <1>4, Zenon DEF SocketStores
      <2>2. \A u \in AllThreads : thr'[u] = IF u = t THEN At("open", thr[t].fd, 0) ELSE thr[u]
            BY <1>1, <1>4, Zenon DEF SocketStores, TypeOK
      <2>3. \A u \in AllThreads : thr'[u].at \in {"set", "ask", "close"} => thr'[u] = thr[u]
            BY <2>2 DEF At
      <2>4. QED BY <1>1, <2>1, <2>3, MappedKept, Zenon
<1>5. ASSUME NEW t \in AllThreads, NEW k \in KernelFds, SocketOpens(t, k) PROVE Mapped(q)'
      <2>1. Mapped(q)
            BY <1>1, <1>5, Zenon DEF SocketOpens
      <2>2. /\ chans \in Nat /\ chans' = chans + 1 /\ chans' \in Chans
            /\ app' = app /\ table' = table
            BY <1>1, <1>5 DEF SocketOpens, TypeOK, Chans
      <2>3. kfds[Proc(t)][k] = Free
            BY <1>5, Zenon DEF SocketOpens, LowestFree
      <2>4. CASE q = Proc(t)
            <3>1. \A j \in KernelFds : kfds'[q][j] = IF j = k THEN chans' ELSE kfds[q][j]
                  BY <1>1, <1>5, <2>4, Zenon DEF SocketOpens, TypeOK
            <3>2. \A u \in AllThreads : thr'[u] = IF u = t THEN At("set", thr[t].fd, k) ELSE thr[u]
                  BY <1>1, <1>5, Zenon DEF SocketOpens, TypeOK
            <3>3. \A j \in KernelFds : kfds[q][j] \in Nat
                  BY <1>1 DEF TypeOK
            <3>4. (\A j \in KernelFds : kfds[q][j] \in Chans =>
                      /\ kfds[q][j] <= chans
                      /\ \A i \in KernelFds \ {j} : kfds[q][i] # kfds[q][j])'
                  BY <2>1, <2>2, <2>3, <2>4, <3>1, <3>3 DEF Mapped, Chans
            <3>5. \A fd \in app[q] : table[q][fd] \in KernelFds \ {k}
                  BY <1>1, <2>1, <2>3, <2>4, SMTT(30) DEF Mapped, TypeOK
            <3>6. (\A fd \in app[q] :
                      /\ kfds[q][table[q][fd]] \in Chans
                      /\ \A other \in app[q] \ {fd} : table[q][fd] # table[q][other])'
                  BY <2>1, <2>2, <3>1, <3>5, Zenon DEF Mapped
            <3>7. \A u \in AllThreads : Proc(u) = q /\ thr[u].at \in {"set", "ask", "close"} =>
                      thr[u].ch \in KernelFds \ {k}
                  BY <1>1, <2>1, <2>3, <2>4, SMTT(30) DEF Mapped, TypeOK
            <3>8. (\A u \in AllThreads : Proc(u) = q /\ thr[u].at \in {"set", "ask", "close"} =>
                      /\ kfds[q][thr[u].ch] \in Chans
                      /\ \A fd \in app[q] : table[q][fd] # thr[u].ch
                      /\ \A v \in AllThreads \ {u} :
                            Proc(v) = q /\ thr[v].at \in {"set", "ask", "close"} => thr[v].ch # thr[u].ch)'
                  <4>1. \A u \in AllThreads : Proc(u) = q /\ thr[u].at \in {"set", "ask", "close"} =>
                            kfds'[q][thr[u].ch] \in Chans
                        BY <2>1, <3>1, <3>7, Zenon DEF Mapped
                  <4>2. kfds'[q][k] \in Chans
                        BY <2>2, <3>1, Zenon
                  <4>3. SUFFICES ASSUME NEW u \in AllThreads, Proc(u) = q,
                                        thr'[u].at \in {"set", "ask", "close"}
                                 PROVE  /\ kfds'[q][thr'[u].ch] \in Chans
                                        /\ \A fd \in app[q] : table[q][fd] # thr'[u].ch
                                        /\ \A v \in AllThreads \ {u} :
                                              Proc(v) = q /\ thr'[v].at \in {"set", "ask", "close"}
                                                 => thr'[v].ch # thr'[u].ch
                        BY <2>2, Zenon
                  <4>4. CASE u = t
                        BY <3>2, <3>5, <3>7, <4>2, <4>3, <4>4 DEF At
                  <4>5. CASE u # t
                        <5>1. thr'[u] = thr[u]
                              BY <3>2, <4>5, Zenon
                        <5>2. /\ thr[u].ch \in KernelFds \ {k}
                              /\ \A fd \in app[q] : table[q][fd] # thr[u].ch
                              /\ \A v \in AllThreads \ {u} :
                                    Proc(v) = q /\ thr[v].at \in {"set", "ask", "close"}
                                       => thr[v].ch # thr[u].ch
                              BY <2>1, <3>7, <4>3, <5>1, Zenon DEF Mapped
                        <5>3. \A v \in AllThreads : thr'[v] = thr[v] \/ thr'[v].ch = k
                              BY <3>2 DEF At
                        <5>4. kfds'[q][thr'[u].ch] \in Chans
                              BY <4>1, <4>3, <5>1, Zenon
                        <5>5. QED BY <4>3, <5>1, <5>2, <5>3, <5>4, Zenon
                  <4>6. QED BY <4>4, <4>5, Zenon
            <3>9. QED BY <3>4, <3>6, <3>8, Zenon DEF Mapped
      <2>5. CASE q # Proc(t)
            <3>1. kfds'[q] = kfds[q] /\ \A u \in AllThreads : Proc(u) = q => thr'[u] = thr[u]
                  BY <1>1, <1>5, <2>5, Zenon DEF SocketOpens, TypeOK
            <3>2. \A j \in KernelFds : kfds[q][j] \in Chans => kfds[q][j] <= chans'
                  BY <2>1, <2>2 DEF Mapped, Chans
            <3>3. (\A j \in KernelFds : kfds[q][j] \in Chans =>
                      /\ kfds[q][j] <= chans
                      /\ \A i \in KernelFds \ {j} : kfds[q][i] # kfds[q][j])'
                  BY <2>1, <3>1, <3>2, Zenon DEF Mapped
            <3>4. (\A fd \in app[q] :
                      /\ kfds[q][table[q][fd]] \in Chans
                      /\ \A other \in app[q] \ {fd} : table[q][fd] # table[q][other])'
                  BY <2>1, <2>2, <3>1, Zenon DEF Mapped
            <3>5. (\A u \in AllThreads : Proc(u) = q /\ thr[u].at \in {"set", "ask", "close"} =>
                      /\ kfds[q][thr[u].ch] \in Chans
                      /\ \A fd \in app[q] : table[q][fd] # thr[u].ch
                      /\ \A v \in AllThreads \ {u} :
                            Proc(v) = q /\ thr[v].at \in {"set", "ask", "close"} => thr[v].ch # thr[u].ch)'
                  BY <2>1, <2>2, <3>1, Zenon DEF Mapped
            <3>6. QED BY <3>3, <3>4, <3>5, Zenon DEF Mapped
      <2>6. QED BY <2>4, <2>5, Zenon
<1>6. ASSUME NEW p \in Procs, Ends(p), UNCHANGED <<table, chans, raced>> PROVE Mapped(q)'
      <2>1. Mapped(q)
            BY <1>1, <1>6, Zenon
      <2>2. CASE q = p
            <3>1. /\ app'[q] = {}
                  /\ \A k \in KernelFds : kfds'[q][k] = Free
                  /\ \A u \in AllThreads : Proc(u) = q => thr'[u] = Idle
                  BY <1>1, <1>6, <2>2, Zenon DEF Ends, TypeOK
            <3>2. QED BY <3>1 DEF Mapped, Idle, At
      <2>3. CASE q # p
            <3>1. /\ app'[q] = app[q] /\ kfds'[q] = kfds[q]
                  /\ \A u \in AllThreads : Proc(u) = q => thr'[u] = thr[u]
                  BY <1>1, <1>6, <2>3, Zenon DEF Ends, TypeOK
            <3>2. QED BY <1>1, <1>6, <2>1, <3>1, MappedKept, Zenon
      <2>4. QED BY <2>2, <2>3, Zenon
<1>7. ASSUME NEW t \in AllThreads, SocketSets(t) PROVE Mapped(q)'
      <2>1. Fresh(q) /\ Mapped(q)
            BY <1>1, <1>7, Zenon DEF SocketSets
      <2>2. UNCHANGED <<kfds, app, chans>> /\ thr[t].at = "set"
            BY <1>7, Zenon DEF SocketSets
      <2>3. \A fd \in app[q] : table'[q][fd] = table[q][fd]
            <3>1. CASE q = Proc(t)
                  <4>1. thr[t].fd \notin app[q]
                        BY <2>1, <2>2, <3>1, Zenon DEF Fresh
                  <4>2. app[q] \subseteq VeloxFds
                        BY <1>1, Zenon DEF TypeOK
                  <4>3. QED BY <1>1, <1>7, <3>1, <4>1, <4>2, Zenon DEF SocketSets, TypeOK
            <3>2. CASE q # Proc(t)
                  BY <1>1, <1>7, <3>2, Zenon DEF SocketSets, TypeOK
            <3>3. QED BY <3>1, <3>2, Zenon
      <2>4. \A u \in AllThreads :
               thr'[u] = IF u = t THEN At("ask", thr[t].fd, thr[t].ch) ELSE thr[u]
            BY <1>1, <1>7, Zenon DEF SocketSets, TypeOK
      <2>5. \A u \in AllThreads : thr'[u].at \in {"set", "ask", "close"} =>
               thr[u].at \in {"set", "ask", "close"} /\ thr'[u].ch = thr[u].ch
            BY <2>2, <2>4 DEF At
      <2>6. QED BY <1>1, <2>1, <2>2, <2>3, <2>5, MappedKept, Zenon
<1>17. ASSUME NEW t \in AllThreads, SocketReturns(t) PROVE Mapped(q)'
      <2>1. Fresh(q) /\ Mapped(q) /\ Entered(q)
            BY <1>1, <1>17, Zenon DEF SocketReturns
      <2>2. CASE q = Proc(t) /\ thr[t].fd \in VeloxFds
            <3>1. thr[t].fd \notin app[q]
                  BY <1>17, <2>1, <2>2, Zenon DEF SocketReturns, Fresh
            <3>2. table' = table /\ table[q][thr[t].fd] = thr[t].ch
                  BY <1>17, <2>1, <2>2, Zenon DEF SocketReturns, Entered
            <3>3. app'[q] = app[q] \cup {thr[t].fd} /\ kfds' = kfds /\ chans' = chans
                  BY <1>1, <1>17, <2>2, Zenon DEF SocketReturns, TypeOK, is_assigned_by_velox
            <3>4. \A u \in AllThreads : thr'[u] = IF u = t THEN Idle ELSE thr[u]
                  BY <1>1, <1>17, Zenon DEF SocketReturns, TypeOK
            <3>5. kfds[q][thr[t].ch] \in Chans /\ thr[t].at = "ask"
                  BY <1>17, <2>1, <2>2, Zenon DEF SocketReturns, Mapped
            <3>10. \A fd \in app[q] : table[q][fd] # thr[t].ch
                  BY <2>1, <2>2, <3>5, Zenon DEF Mapped
            <3>11. \A fd \in app[q] :
                      /\ kfds[q][table[q][fd]] \in Chans
                      /\ \A other \in app[q] \ {fd} : table[q][fd] # table[q][other]
                  BY <2>1, Zenon DEF Mapped
            <3>6. (\A fd \in app[q] :
                      /\ kfds[q][table[q][fd]] \in Chans
                      /\ \A other \in app[q] \ {fd} : table[q][fd] # table[q][other])'
                  <4>1. ASSUME NEW fd \in app'[q], NEW other \in app'[q] \ {fd}
                        PROVE  table'[q][fd] # table'[q][other]
                        BY <3>1, <3>2, <3>3, <3>10, <3>11, <4>1, Zenon
                  <4>2. ASSUME NEW fd \in app'[q] PROVE kfds'[q][table'[q][fd]] \in Chans
                        BY <3>2, <3>3, <3>5, <3>11, <4>2, Zenon
                  <4>3. QED BY <4>1, <4>2, Zenon
            <3>7. (\A u \in AllThreads : Proc(u) = q /\ thr[u].at \in {"set", "ask", "close"} =>
                      /\ kfds[q][thr[u].ch] \in Chans
                      /\ \A fd \in app[q] : table[q][fd] # thr[u].ch
                      /\ \A v \in AllThreads \ {u} :
                            Proc(v) = q /\ thr[v].at \in {"set", "ask", "close"} => thr[v].ch # thr[u].ch)'
                  <4>1. SUFFICES ASSUME NEW u \in AllThreads, Proc(u) = q,
                                        thr'[u].at \in {"set", "ask", "close"}
                                 PROVE  /\ kfds[q][thr'[u].ch] \in Chans
                                        /\ \A fd \in app'[q] : table'[q][fd] # thr'[u].ch
                                        /\ \A v \in AllThreads \ {u} :
                                              Proc(v) = q /\ thr'[v].at \in {"set", "ask", "close"}
                                                 => thr'[v].ch # thr'[u].ch
                        BY <3>3, Zenon
                  <4>2. u # t /\ thr'[u] = thr[u]
                        BY <3>4, <4>1 DEF Idle, At
                  <4>3. /\ kfds[q][thr[u].ch] \in Chans
                        /\ \A fd \in app[q] : table[q][fd] # thr[u].ch
                        /\ \A v \in AllThreads \ {u} :
                              Proc(v) = q /\ thr[v].at \in {"set", "ask", "close"} => thr[v].ch # thr[u].ch
                        BY <2>1, <4>1, <4>2, Zenon DEF Mapped
                  <4>4. \A fd \in app'[q] : table'[q][fd] # thr[u].ch
                        BY <2>2, <3>2, <3>3, <3>5, <4>2, <4>3
                  <4>5. \A v \in AllThreads : thr'[v].at \in {"set", "ask", "close"} => thr'[v] = thr[v]
                        BY <3>4 DEF Idle, At
                  <4>6. QED BY <4>2, <4>3, <4>4, <4>5, Zenon
            <3>8. QED BY <2>1, <3>3, <3>6, <3>7, Zenon DEF Mapped
      <2>3. CASE q # Proc(t) \/ thr[t].fd \notin VeloxFds
            <3>1. app'[q] = app[q] /\ UNCHANGED <<table, kfds, chans>>
                  BY <1>1, <1>17, <2>3, Zenon DEF SocketReturns, TypeOK, is_assigned_by_velox
            <3>2. \A u \in AllThreads : thr'[u] = IF u = t THEN Idle ELSE thr[u]
                  BY <1>1, <1>17, Zenon DEF SocketReturns, TypeOK
            <3>3. \A u \in AllThreads : thr'[u].at \in {"set", "ask", "close"} => thr'[u] = thr[u]
                  BY <3>2 DEF Idle, At
            <3>4. QED BY <1>1, <2>1, <3>1, <3>3, MappedKept, Zenon
      <2>4. QED BY <2>2, <2>3, Zenon
<1>8. ASSUME NEW t \in AllThreads, SocketOverruns(t) PROVE Mapped(q)'
      <2>1. CASE thr' = [thr EXCEPT ![t] = At("ask", @.fd, @.ch)] /\ UNCHANGED <<run, kfds, app>>
            <3>1. q \notin raced /\ UNCHANGED <<table, kfds, app, chans>>
                  BY <1>8, <2>1, Zenon DEF SocketOverruns
            <3>2. \A u \in AllThreads :
                     thr'[u] = IF u = t THEN At("ask", thr[t].fd, thr[t].ch) ELSE thr[u]
                  BY <1>1, <2>1, Zenon DEF TypeOK
            <3>3. thr[t].at = "set"
                  BY <1>8, Zenon DEF SocketOverruns
            <3>4. \A u \in AllThreads : thr'[u].at \in {"set", "ask", "close"} =>
                     thr[u].at \in {"set", "ask", "close"} /\ thr'[u].ch = thr[u].ch
                  BY <3>2, <3>3 DEF At
            <3>5. QED BY <1>1, <3>1, <3>4, MappedKept, Zenon
      <2>2. QED BY <1>6, <1>8, <2>1, Zenon DEF SocketOverruns
<1>9. ASSUME NEW t \in AllThreads, NEW fd \in VeloxFds, CloseUnsets(t, fd) PROVE Mapped(q)'
      <2>1. Mapped(q)
            BY <1>1, <1>9, Zenon DEF CloseUnsets
      <2>2. CASE q = Proc(t)
            <3>1. /\ app'[q] = app[q] \ {fd} /\ fd \in app[q]
                  /\ \A other \in app'[q] : table'[q][other] = table[q][other]
                  /\ kfds' = kfds /\ chans' = chans
                  BY <1>1, <1>9, <2>2, Zenon DEF CloseUnsets, TypeOK
            <3>2. \A u \in AllThreads : thr'[u] = IF u = t THEN At("close", fd, table[q][fd]) ELSE thr[u]
                  BY <1>1, <1>9, <2>2, Zenon DEF CloseUnsets, TypeOK
            <3>3. (\A f \in app[q] :
                      /\ kfds[q][table[q][f]] \in Chans
                      /\ \A other \in app[q] \ {f} : table[q][f] # table[q][other])'
                  BY <2>1, <3>1, Zenon DEF Mapped
            <3>4. ASSUME NEW u \in AllThreads, Proc(u) = q, thr'[u].at \in {"set", "ask", "close"}
                  PROVE  /\ kfds'[q][thr'[u].ch] \in Chans
                         /\ \A f \in app'[q] : table'[q][f] # thr'[u].ch
                         /\ \A v \in AllThreads \ {u} :
                               Proc(v) = q /\ thr'[v].at \in {"set", "ask", "close"}
                                  => thr'[v].ch # thr'[u].ch
                  <4>1. \A v \in AllThreads : Proc(v) = q /\ thr[v].at \in {"set", "ask", "close"} =>
                            table[q][fd] # thr[v].ch
                        BY <2>1, <3>1, Zenon DEF Mapped
                  <4>2. CASE u = t
                        <5>1. /\ thr'[u].ch = table[q][fd]
                              /\ \A v \in AllThreads \ {u} : thr'[v] = thr[v]
                              BY <3>2, <4>2 DEF At
                        <5>2. /\ kfds[q][table[q][fd]] \in Chans
                              /\ \A f \in app'[q] : table[q][f] # table[q][fd]
                              BY <2>1, <3>1, Zenon DEF Mapped
                        <5>3. QED BY <3>1, <4>1, <5>1, <5>2, Zenon
                  <4>3. CASE u # t
                        <5>1. thr'[u] = thr[u]
                              BY <3>2, <4>3, Zenon
                        <5>2. /\ kfds[q][thr[u].ch] \in Chans
                              /\ \A f \in app[q] : table[q][f] # thr[u].ch
                              /\ \A v \in AllThreads \ {u} :
                                    Proc(v) = q /\ thr[v].at \in {"set", "ask", "close"}
                                       => thr[v].ch # thr[u].ch
                              BY <2>1, <3>4, <5>1, Zenon DEF Mapped
                        <5>3. \A v \in AllThreads : thr'[v] = thr[v] \/ thr'[v].ch = table[q][fd]
                              BY <3>2 DEF At
                        <5>4. table[q][fd] # thr[u].ch
                              BY <3>4, <4>1, <5>1, Zenon
                        <5>5. QED BY <3>1, <5>1, <5>2, <5>3, <5>4, Zenon
                  <4>4. QED BY <4>2, <4>3, Zenon
            <3>5. QED BY <2>1, <3>1, <3>3, <3>4, Zenon DEF Mapped
      <2>3. CASE q # Proc(t)
            <3>1. /\ app'[q] = app[q] /\ table'[q] = table[q] /\ kfds'[q] = kfds[q] /\ chans' = chans
                  /\ \A u \in AllThreads : Proc(u) = q => thr'[u] = thr[u]
                  BY <1>1, <1>9, <2>3, Zenon DEF CloseUnsets, TypeOK
            <3>2. QED BY <1>1, <2>1, <3>1, MappedKept, Zenon
      <2>4. QED BY <2>2, <2>3, Zenon
<1>10. ASSUME NEW t \in AllThreads, CloseChan(t) PROVE Mapped(q)'
      <2>1. Mapped(q) /\ UNCHANGED <<table, app, chans>> /\ thr[t].at = "close"
            BY <1>1, <1>10, Zenon DEF CloseChan
      <2>2. \A u \in AllThreads : thr'[u] = IF u = t THEN Idle ELSE thr[u]
            BY <1>1, <1>10, Zenon DEF CloseChan, TypeOK
      <2>3. \A u \in AllThreads : thr'[u].at \in {"set", "ask", "close"} => u # t /\ thr'[u] = thr[u]
            BY <2>2 DEF Idle, At
      <2>4. CASE q = Proc(t)
            <3>1. \A j \in KernelFds : kfds'[q][j] = IF j = thr[t].ch THEN Free ELSE kfds[q][j]
                  BY <1>1, <1>10, <2>4, Zenon DEF CloseChan, TypeOK
            <3>2. /\ \A fd \in app[q] : table[q][fd] \in KernelFds \ {thr[t].ch}
                  /\ \A u \in AllThreads \ {t} : Proc(u) = q /\ thr[u].at \in {"set", "ask", "close"} =>
                        thr[u].ch \in KernelFds \ {thr[t].ch}
                  <4>1. /\ \A fd \in app[q] : table[q][fd] \in KernelFds
                        /\ \A u \in AllThreads : thr[u].ch \in KernelFds
                        BY <1>1 DEF TypeOK
                  <4>2. QED BY <2>1, <2>4, <4>1, Zenon DEF Mapped
            <3>3. (\A k \in KernelFds : kfds[q][k] \in Chans =>
                      /\ kfds[q][k] <= chans
                      /\ \A j \in KernelFds \ {k} : kfds[q][j] # kfds[q][k])'
                  BY <2>1, <3>1 DEF Mapped
            <3>4. (\A fd \in app[q] :
                      /\ kfds[q][table[q][fd]] \in Chans
                      /\ \A other \in app[q] \ {fd} : table[q][fd] # table[q][other])'
                  BY <2>1, <3>1, <3>2, Zenon DEF Mapped
            <3>5. ASSUME NEW u \in AllThreads, Proc(u) = q, thr'[u].at \in {"set", "ask", "close"}
                  PROVE  /\ kfds'[q][thr'[u].ch] \in Chans
                         /\ \A fd \in app'[q] : table'[q][fd] # thr'[u].ch
                         /\ \A v \in AllThreads \ {u} :
                               Proc(v) = q /\ thr'[v].at \in {"set", "ask", "close"}
                                  => thr'[v].ch # thr'[u].ch
                  <4>1. u # t /\ thr'[u] = thr[u]
                        BY <2>3, <3>5, Zenon
                  <4>2. /\ kfds[q][thr[u].ch] \in Chans
                        /\ \A fd \in app[q] : table[q][fd] # thr[u].ch
                        /\ \A v \in AllThreads \ {u} :
                              Proc(v) = q /\ thr[v].at \in {"set", "ask", "close"}
                                 => thr[v].ch # thr[u].ch
                        BY <2>1, <3>5, <4>1, Zenon DEF Mapped
                  <4>3. kfds'[q][thr'[u].ch] \in Chans
                        BY <3>1, <3>2, <3>5, <4>1, <4>2, Zenon
                  <4>4. QED BY <2>1, <2>3, <4>1, <4>2, <4>3, Zenon
            <3>6. QED BY <3>3, <3>4, <3>5, Zenon DEF Mapped
      <2>5. CASE q # Proc(t)
            <3>1. kfds'[q] = kfds[q]
                  BY <1>1, <1>10, <2>5, Zenon DEF CloseChan, TypeOK
            <3>2. QED BY <1>1, <2>1, <2>3, <3>1, MappedKept, Zenon
      <2>6. QED BY <2>4, <2>5, Zenon
<1>11. ASSUME NEW t \in AllThreads, NEW k \in KernelFds, OpensFile(t, k) \/ ClosesFile(t, k)
       PROVE  Mapped(q)'
      <2>1. Mapped(q) /\ UNCHANGED <<table, thr, app, chans>>
            BY <1>1, <1>11, Zenon DEF OpensFile, ClosesFile
      <2>2. PICK f \in {File, Free} : kfds' = [kfds EXCEPT ![Proc(t)][k] = f]
            BY <1>11, Zenon DEF OpensFile, ClosesFile
      <2>3. kfds[Proc(t)][k] \notin Chans
            BY <1>11, Zenon DEF OpensFile, ClosesFile, LowestFree
      <2>4. \A j \in KernelFds :
               \/ kfds'[q][j] = kfds[q][j]
               \/ kfds[q][j] \notin Chans /\ kfds'[q][j] \notin Chans
            BY <1>1, <2>2, <2>3, Zenon DEF TypeOK
      <2>5. QED BY <1>1, <2>1, <2>4, MappedKept, Zenon
<1>13. ASSUME NEW t \in AllThreads, Fork(t) PROVE Mapped(q)'
      <2>1. CASE q = "parent"
            <3>1. /\ app'[q] = app[q] /\ table'[q] = table[q] /\ kfds'[q] = kfds[q]
                  /\ chans' = chans /\ thr' = thr
                  BY <1>1, <1>13, <2>1, Zenon DEF Fork, TypeOK
            <3>2. Mapped(q)
                  BY <1>1, <1>13, <2>1, Zenon DEF Fork, Procs
            <3>3. QED BY <1>1, <3>1, <3>2, MappedKept, Zenon
      <2>2. CASE q = "child"
            <3>1. Mapped("parent")
                  BY <1>13, <2>2, Zenon DEF Fork, IInv, Procs
            <3>2. \A u \in AllThreads : Proc(u) = "child" => thr'[u].at = "idle"
                  BY <1>1, <1>13, Zenon DEF Fork, Counting, CountingThr, Procs
            <3>3. /\ kfds'[q] = kfds["parent"] /\ table'[q] = table["parent"]
                  /\ app'[q] = app["parent"] /\ chans' = chans
                  BY <1>1, <1>13, <2>2, Zenon DEF Fork, TypeOK
            <3>4. /\ (\A k \in KernelFds : kfds[q][k] \in Chans =>
                         /\ kfds[q][k] <= chans
                         /\ \A j \in KernelFds \ {k} : kfds[q][j] # kfds[q][k])'
                  /\ (\A fd \in app[q] :
                         /\ kfds[q][table[q][fd]] \in Chans
                         /\ \A other \in app[q] \ {fd} : table[q][fd] # table[q][other])'
                  BY <3>1, <3>3, Zenon DEF Mapped
            <3>5. QED BY <2>2, <3>2, <3>4, Zenon DEF Mapped
      <2>3. QED BY <1>1, <2>1, <2>2, Zenon DEF Procs
<1>14. CASE UNCHANGED vars
      BY <1>1, <1>14, Zenon DEF vars, Mapped
<1>15. ASSUME NEW t \in AllThreads, SocketFails(t) PROVE Mapped(q)'
      BY <1>6, <1>15, Zenon DEF SocketFails
<1>16. QED
      BY <1>2, <1>3, <1>4, <1>5, <1>7, <1>8, <1>9, <1>10, <1>11, <1>13, <1>14, <1>15, <1>17,
         Zenon DEF Next

\* A channel stays entered when the step changes no entry of a thread that asks and
\* brings no thread there.
LEMMA EnteredKept ==
    ASSUME NEW q \in Procs, Entered(q), table'[q] = table[q],
           \A u \in AllThreads : Proc(u) = q /\ thr'[u].at = "ask" => thr'[u] = thr[u]
    PROVE  Entered(q)'
BY Zenon DEF Entered

LEMMA EnteredStep ==
    ASSUME IInv, [Next]_vars, NEW q \in Procs \ raced'
    PROVE  Entered(q)'
<1> USE ProcType
<1>1. q \in Procs /\ TypeOK /\ Counting /\ (q \notin raced => Fresh(q) /\ Entered(q))
      BY Zenon DEF IInv
<1>2. CASE Start
      BY <1>1, <1>2, EnteredKept, Zenon DEF Start
<1>3. ASSUME NEW t \in AllThreads, SocketLoads(t) PROVE Entered(q)'
      <2>1. q \notin raced /\ table' = table
            BY <1>3, Zenon DEF SocketLoads
      <2>2. \A u \in AllThreads : thr'[u].at = "ask" => thr'[u] = thr[u]
            BY <1>1, <1>3, Zenon DEF SocketLoads, TypeOK, At
      <2>3. QED BY <1>1, <2>1, <2>2, EnteredKept, Zenon
<1>4. ASSUME NEW t \in AllThreads, SocketStores(t) PROVE Entered(q)'
      <2>1. \A u \in AllThreads : thr'[u].at = "ask" => thr'[u] = thr[u]
            BY <1>1, <1>4, Zenon DEF SocketStores, TypeOK, At
      <2>2. QED BY <1>1, <1>4, <2>1, EnteredKept, Zenon DEF SocketStores
<1>5. ASSUME NEW t \in AllThreads, NEW k \in KernelFds, SocketOpens(t, k) PROVE Entered(q)'
      <2>1. \A u \in AllThreads : thr'[u].at = "ask" => thr'[u] = thr[u]
            BY <1>1, <1>5, Zenon DEF SocketOpens, TypeOK, At
      <2>2. QED BY <1>1, <1>5, <2>1, EnteredKept, Zenon DEF SocketOpens
<1>6. ASSUME NEW p, Ends(p), UNCHANGED <<table, raced>> PROVE Entered(q)'
      <2>1. \A u \in AllThreads : thr'[u].at = "ask" => thr'[u] = thr[u]
            BY <1>6, Zenon DEF Ends, Idle, At
      <2>2. QED BY <1>1, <1>6, <2>1, EnteredKept, Zenon
<1>7. ASSUME NEW t \in AllThreads, SocketSets(t) PROVE Entered(q)'
      <2>1. Fresh(q) /\ Entered(q) /\ thr[t].at = "set"
            BY <1>1, <1>7, Zenon DEF SocketSets
      <2>2. \A u \in AllThreads :
               thr'[u] = IF u = t THEN At("ask", thr[t].fd, thr[t].ch) ELSE thr[u]
            BY <1>1, <1>7, Zenon DEF SocketSets, TypeOK
      <2>3. CASE q = Proc(t)
            <3>1. ASSUME NEW u \in AllThreads, Proc(u) = q, thr'[u].at = "ask",
                         thr'[u].fd \in VeloxFds
                  PROVE  table'[q][thr'[u].fd] = thr'[u].ch
                  <4>1. \A fd \in VeloxFds :
                           table'[q][fd] = IF fd = thr[t].fd THEN thr[t].ch ELSE table[q][fd]
                        <5>1. /\ table \in [Procs -> [VeloxFds -> KernelFds]]
                              /\ table' = [table EXCEPT ![q][thr[t].fd] = thr[t].ch]
                              BY <1>1, <1>7, <2>3, Zenon DEF SocketSets, TypeOK
                        <5>2. table'[q] = [table[q] EXCEPT ![thr[t].fd] = thr[t].ch]
                              BY <1>1, <5>1, Zenon
                        <5>3. QED BY <1>1, <5>1, <5>2, Zenon
                  <4>2. CASE u = t
                        <5>1. thr'[u] = At("ask", thr[t].fd, thr[t].ch)
                              BY <2>2, <4>2, Zenon
                        <5>2. thr'[u].fd = thr[t].fd /\ thr'[u].ch = thr[t].ch
                              BY <5>1 DEF At
                        <5>3. QED BY <3>1, <4>1, <5>2, Zenon
                  <4>3. CASE u # t
                        <5>1. thr'[u] = thr[u]
                              BY <2>2, <4>3, Zenon
                        <5>2. thr[u].fd # thr[t].fd
                              BY <2>1, <2>3, <3>1, <4>3, <5>1, Zenon DEF Fresh
                        <5>3. table[q][thr[u].fd] = thr[u].ch
                              BY <2>1, <3>1, <5>1, Zenon DEF Entered
                        <5>4. QED BY <3>1, <4>1, <5>1, <5>2, <5>3, Zenon
                  <4>4. QED BY <4>2, <4>3, Zenon
            <3>2. QED BY <3>1, Zenon DEF Entered
      <2>4. CASE q # Proc(t)
            <3>1. table'[q] = table[q] /\ \A u \in AllThreads : Proc(u) = q => thr'[u] = thr[u]
                  BY <1>1, <1>7, <2>2, <2>4, Zenon DEF SocketSets, TypeOK
            <3>2. QED BY <1>1, <2>1, <3>1, EnteredKept, Zenon
      <2>5. QED BY <2>3, <2>4, Zenon
<1>8. ASSUME NEW t \in AllThreads, SocketOverruns(t) PROVE Entered(q)'
      <2>1. CASE thr' = [thr EXCEPT ![t] = At("ask", @.fd, @.ch)] /\ UNCHANGED <<run, kfds, app>>
            <3>1. Entered(q) /\ table' = table /\ thr[t].fd \notin VeloxFds
                  BY <1>1, <1>8, Zenon DEF SocketOverruns, is_assigned_by_velox
            <3>2. \A u \in AllThreads :
                     thr'[u] = IF u = t THEN At("ask", thr[t].fd, thr[t].ch) ELSE thr[u]
                  BY <1>1, <2>1, Zenon DEF TypeOK
            <3>3. \A u \in AllThreads : thr'[u].fd \in VeloxFds => thr'[u] = thr[u]
                  BY <3>1, <3>2 DEF At
            <3>4. QED BY <3>1, <3>3, Zenon DEF Entered
      <2>2. QED BY <1>6, <1>8, <2>1, Zenon DEF SocketOverruns
<1>9. ASSUME NEW t \in AllThreads, SocketReturns(t) PROVE Entered(q)'
      <2>1. \A u \in AllThreads : thr'[u].at = "ask" => thr'[u] = thr[u]
            BY <1>1, <1>9, Zenon DEF SocketReturns, TypeOK, Idle, At
      <2>2. QED BY <1>1, <1>9, <2>1, EnteredKept, Zenon DEF SocketReturns
<1>10. ASSUME NEW t \in AllThreads, NEW fd \in VeloxFds, CloseUnsets(t, fd) PROVE Entered(q)'
      <2>1. Fresh(q) /\ Entered(q) /\ fd \in app[Proc(t)]
            BY <1>1, <1>10, Zenon DEF CloseUnsets
      <2>2. \A u \in AllThreads : thr'[u].at = "ask" => thr'[u] = thr[u]
            BY <1>1, <1>10, Zenon DEF CloseUnsets, TypeOK, At
      <2>3. \A f \in VeloxFds : q # Proc(t) \/ f # fd => table'[q][f] = table[q][f]
            BY <1>1, <1>10, Zenon DEF CloseUnsets, TypeOK
      <2>4. ASSUME NEW u \in AllThreads, Proc(u) = q, thr'[u].at = "ask", thr'[u].fd \in VeloxFds
            PROVE  table'[q][thr'[u].fd] = thr'[u].ch
            <3>1. thr'[u] = thr[u]
                  BY <2>2, <2>4, Zenon
            <3>2. thr[u].fd \notin app[q]
                  BY <2>1, <2>4, <3>1, Zenon DEF Fresh
            <3>3. table[q][thr[u].fd] = thr[u].ch
                  BY <2>1, <2>4, <3>1, Zenon DEF Entered
            <3>4. QED BY <2>1, <2>3, <2>4, <3>1, <3>2, <3>3, Zenon
      <2>5. QED BY <2>4, Zenon DEF Entered
<1>11. ASSUME NEW t \in AllThreads, CloseChan(t) PROVE Entered(q)'
      <2>1. \A u \in AllThreads : thr'[u].at = "ask" => thr'[u] = thr[u]
            BY <1>1, <1>11, Zenon DEF CloseChan, TypeOK, Idle, At
      <2>2. QED BY <1>1, <1>11, <2>1, EnteredKept, Zenon DEF CloseChan
<1>12. ASSUME NEW t \in AllThreads, NEW k \in KernelFds, OpensFile(t, k) \/ ClosesFile(t, k)
       PROVE  Entered(q)'
      BY <1>1, <1>12, EnteredKept, Zenon DEF OpensFile, ClosesFile
<1>13. ASSUME NEW t \in AllThreads, Fork(t) PROVE Entered(q)'
      <2>1. CASE q = "parent"
            <3>1. table'[q] = table[q] /\ thr' = thr /\ Entered(q)
                  BY <1>1, <1>13, <2>1, Zenon DEF Fork, TypeOK, Procs
            <3>2. QED BY <1>1, <3>1, EnteredKept, Zenon
      <2>2. CASE q = "child"
            <3>1. \A u \in AllThreads : Proc(u) = "child" => thr'[u].at = "idle"
                  BY <1>1, <1>13, Zenon DEF Fork, Counting, CountingThr, Procs
            <3>2. QED BY <2>2, <3>1, Zenon DEF Entered
      <2>3. QED BY <1>1, <2>1, <2>2, Zenon DEF Procs
<1>14. CASE UNCHANGED vars
      BY <1>1, <1>14, Zenon DEF vars, Entered
<1>15. ASSUME NEW t \in AllThreads, SocketFails(t) PROVE Entered(q)'
      BY <1>6, <1>15, Zenon DEF SocketFails
<1>16. QED
      BY <1>2, <1>3, <1>4, <1>5, <1>7, <1>8, <1>9, <1>10, <1>11, <1>12, <1>13, <1>14, <1>15, Zenon
         DEF Next

Held(p, k) ==
    \/ \E fd \in app[p] : table[p][fd] = k
    \/ \E t \in AllThreads :
          Proc(t) = p /\ thr[t].at \in {"set", "ask", "close"} /\ thr[t].ch = k

\* A channel stays in the table or in a thread's hands when the step changes
\* neither for its process.
LEMMA HeldKept ==
    ASSUME NEW q \in Procs, NEW k \in KernelFds, Held(q, k),
           app'[q] = app[q], \A fd \in app[q] : table'[q][fd] = table[q][fd],
           \A u \in AllThreads : Proc(u) = q /\ thr[u].at \in {"set", "ask", "close"} =>
              thr'[u].at \in {"set", "ask", "close"} /\ thr'[u].ch = thr[u].ch
    PROVE  Held(q, k)'
<1>1. CASE \E fd \in app[q] : table[q][fd] = k
      BY <1>1, Zenon DEF Held
<1>2. CASE \E u \in AllThreads : Proc(u) = q /\ thr[u].at \in {"set", "ask", "close"} /\ thr[u].ch = k
      <2>1. PICK u \in AllThreads : Proc(u) = q /\ thr[u].at \in {"set", "ask", "close"} /\ thr[u].ch = k
            BY <1>2, Zenon
      <2>2. thr'[u].at \in {"set", "ask", "close"} /\ thr'[u].ch = thr[u].ch
            BY <2>1, Zenon
      <2>3. QED BY <2>1, <2>2, Zenon DEF Held
<1>3. QED BY <1>1, <1>2, Zenon DEF Held

LEMMA HeldStep ==
    ASSUME IInv, [Next]_vars, NEW q \in Procs \ (raced' \cup overrun'),
           run'[q] = "up", q = "child" => ~torn',
           NEW k \in KernelFds, kfds'[q][k] \in Chans
    PROVE  Held(q, k)'
<1> USE FileKinds, ProcType
<1>1. q \in Procs /\ TypeOK /\ Counting /\ (q \notin raced => Fresh(q) /\ Entered(q))
      BY Zenon DEF IInv
<1>2. ASSUME q \notin raced, q \notin overrun, run[q] = "up", q = "child" => ~torn,
             kfds[q][k] \in Chans
      PROVE  Held(q, k)
      BY <1>1, <1>2, Zenon DEF IInv, NoChannelLost, Held
<1>3. CASE Start
      <2>1. q # "parent"
            BY <1>1, <1>3 DEF Start, TypeOK, Counting, Procs
      <2>2. /\ run[q] = run'[q] /\ kfds[q] = kfds'[q]
            /\ UNCHANGED <<table, thr, app, raced, torn, overrun>>
            BY <1>1, <1>3, <2>1, Zenon DEF Start, TypeOK
      <2>3. Held(q, k)
            BY <1>2, <2>2, Zenon
      <2>4. QED BY <1>1, <2>2, <2>3, HeldKept, Zenon
<1>4. ASSUME NEW t \in AllThreads, SocketLoads(t) PROVE Held(q, k)'
      <2>1. /\ UNCHANGED <<run, table, kfds, app, torn, overrun>>
            /\ q \notin raced /\ thr[t].at = "idle"
            BY <1>4, Zenon DEF SocketLoads
      <2>2. Held(q, k)
            BY <1>2, <2>1, Zenon
      <2>3. \A u \in AllThreads \ {t} : thr'[u] = thr[u]
            BY <1>1, <1>4, Zenon DEF SocketLoads, TypeOK
      <2>4. QED BY <1>1, <2>1, <2>2, <2>3, HeldKept, Zenon
<1>5. ASSUME NEW t \in AllThreads, SocketStores(t) PROVE Held(q, k)'
      <2>1. /\ UNCHANGED <<run, table, kfds, app, raced, torn, overrun>>
            /\ thr[t].at = "inc"
            BY <1>5, Zenon DEF SocketStores
      <2>2. Held(q, k)
            BY <1>2, <2>1, Zenon
      <2>3. \A u \in AllThreads \ {t} : thr'[u] = thr[u]
            BY <1>1, <1>5, Zenon DEF SocketStores, TypeOK
      <2>4. QED BY <1>1, <2>1, <2>2, <2>3, HeldKept, Zenon
<1>6. ASSUME NEW t \in AllThreads, NEW j \in KernelFds, SocketOpens(t, j) PROVE Held(q, k)'
      <2>1. CASE q = Proc(t) /\ k = j
            <3>1. thr'[t] = At("set", thr[t].fd, j)
                  BY <1>1, <1>6, Zenon DEF SocketOpens, TypeOK
            <3>2. QED BY <2>1, <3>1 DEF Held, At
      <2>2. CASE ~(q = Proc(t) /\ k = j)
            <3>1. kfds[q][k] = kfds'[q][k]
                  BY <1>1, <1>6, <2>2, Zenon DEF SocketOpens, TypeOK
            <3>2. Held(q, k)
                  BY <1>1, <1>2, <1>6, <3>1, Zenon DEF SocketOpens
            <3>3. UNCHANGED <<table, app>> /\ thr[t].at = "open"
                  BY <1>6, Zenon DEF SocketOpens
            <3>4. \A u \in AllThreads \ {t} : thr'[u] = thr[u]
                  BY <1>1, <1>6, Zenon DEF SocketOpens, TypeOK
            <3>5. QED BY <1>1, <3>2, <3>3, <3>4, HeldKept, Zenon
      <2>3. QED BY <2>1, <2>2, Zenon
<1>7. ASSUME NEW p \in Procs, Ends(p), UNCHANGED <<table, raced, torn>>, overrun \subseteq overrun'
      PROVE  Held(q, k)'
      <2>1. q # p /\ run[q] = "up" /\ kfds[q][k] = kfds'[q][k] /\ app'[q] = app[q]
            BY <1>1, <1>7, Zenon DEF Ends, TypeOK
      <2>2. Held(q, k)
            BY <1>1, <1>2, <1>7, <2>1, Zenon
      <2>3. \A t \in AllThreads : Proc(t) = q => thr'[t] = thr[t]
            BY <1>7, <2>1, Zenon DEF Ends
      <2>4. QED BY <1>7, <2>1, <2>2, <2>3, Zenon DEF Held
<1>8. ASSUME NEW t \in AllThreads, SocketSets(t) PROVE Held(q, k)'
      <2>1. Held(q, k) /\ Fresh(q) /\ app' = app /\ thr[t].at = "set"
            BY <1>1, <1>2, <1>8, Zenon DEF SocketSets
      <2>2. \A fd \in app[q] : table'[q][fd] = table[q][fd]
            <3>1. CASE q = Proc(t)
                  <4>1. thr[t].fd \notin app[q]
                        BY <2>1, <3>1, Zenon DEF Fresh
                  <4>2. app[q] \subseteq VeloxFds
                        BY <1>1, Zenon DEF TypeOK
                  <4>3. QED BY <1>1, <1>8, <3>1, <4>1, <4>2, Zenon DEF SocketSets, TypeOK
            <3>2. CASE q # Proc(t)
                  BY <1>1, <1>8, <3>2, Zenon DEF SocketSets, TypeOK
            <3>3. QED BY <3>1, <3>2, Zenon
      <2>3. \A u \in AllThreads :
               thr'[u] = IF u = t THEN At("ask", thr[t].fd, thr[t].ch) ELSE thr[u]
            BY <1>1, <1>8, Zenon DEF SocketSets, TypeOK
      <2>4. \A u \in AllThreads : thr[u].at \in {"set", "ask", "close"} =>
               thr'[u].at \in {"set", "ask", "close"} /\ thr'[u].ch = thr[u].ch
            BY <2>3 DEF At
      <2>5. QED BY <1>1, <2>1, <2>2, <2>4, HeldKept, Zenon
<1>17. ASSUME NEW t \in AllThreads, SocketReturns(t) PROVE Held(q, k)'
      <2>1. /\ Held(q, k) /\ Entered(q) /\ table' = table /\ q \notin overrun
            /\ thr[t].at = "ask"
            BY <1>1, <1>2, <1>17, Zenon DEF SocketReturns
      <2>2. \A u \in AllThreads \ {t} : thr'[u] = thr[u]
            BY <1>1, <1>17, Zenon DEF SocketReturns, TypeOK
      <2>3. CASE q = Proc(t)
            <3>1. thr[t].fd \in VeloxFds
                  BY <1>1, <2>1, <2>3, Zenon DEF Counting, CountingThr
            <3>2. table[q][thr[t].fd] = thr[t].ch
                  BY <2>1, <2>3, <3>1, Zenon DEF Entered
            <3>3. app'[q] = app[q] \cup {thr[t].fd}
                  BY <1>1, <1>17, <2>3, <3>1, Zenon DEF SocketReturns, TypeOK, is_assigned_by_velox
            <3>4. CASE \E fd \in app[q] : table[q][fd] = k
                  BY <2>1, <3>3, <3>4, Zenon DEF Held
            <3>5. ASSUME NEW u \in AllThreads, Proc(u) = q, thr[u].at \in {"set", "ask", "close"},
                         thr[u].ch = k
                  PROVE  Held(q, k)'
                  <4>1. CASE u = t
                        <5>1. thr[t].fd \in app'[q] /\ table'[q][thr[t].fd] = k
                              BY <2>1, <3>2, <3>3, <3>5, <4>1, Zenon
                        <5>2. QED BY <5>1, Zenon DEF Held
                  <4>2. CASE u # t
                        BY <2>2, <3>5, <4>2, Zenon DEF Held
                  <4>3. QED BY <4>1, <4>2, Zenon
            <3>6. QED BY <2>1, <3>4, <3>5, Zenon DEF Held
      <2>4. CASE q # Proc(t)
            <3>1. app'[q] = app[q]
                  BY <1>1, <1>17, <2>4, Zenon DEF SocketReturns, TypeOK
            <3>2. QED BY <1>1, <2>1, <2>2, <2>4, <3>1, HeldKept, Zenon
      <2>5. QED BY <2>3, <2>4, Zenon
<1>9. ASSUME NEW t \in AllThreads, SocketOverruns(t) PROVE Held(q, k)'
      <2>1. CASE thr' = [thr EXCEPT ![t] = At("ask", @.fd, @.ch)] /\ UNCHANGED <<run, kfds, app>>
            <3>1. q # Proc(t) /\ q \notin raced /\ q \notin overrun
                  BY <1>1, <1>9, Zenon DEF SocketOverruns
            <3>2. UNCHANGED <<run, table, kfds, app, torn>>
                  BY <1>9, <2>1, Zenon DEF SocketOverruns
            <3>3. Held(q, k)
                  BY <1>2, <3>1, <3>2, Zenon
            <3>4. \A u \in AllThreads \ {t} : thr'[u] = thr[u]
                  BY <1>1, <2>1, Zenon DEF TypeOK
            <3>5. QED BY <1>1, <3>1, <3>2, <3>3, <3>4, HeldKept, Zenon
      <2>2. QED BY <1>7, <1>9, <2>1, Zenon DEF SocketOverruns
<1>10. ASSUME NEW t \in AllThreads, NEW fd \in VeloxFds, CloseUnsets(t, fd) PROVE Held(q, k)'
      <2>1. Held(q, k)
            BY <1>1, <1>2, <1>10, Zenon DEF CloseUnsets
      <2>2. CASE q = Proc(t)
            <3>1. /\ thr'[t] = At("close", fd, table[q][fd])
                  /\ \A u \in AllThreads \ {t} : thr'[u] = thr[u]
                  /\ thr[t].at = "idle"
                  BY <1>1, <1>10, <2>2, Zenon DEF CloseUnsets, TypeOK
            <3>2. /\ app'[q] = app[q] \ {fd}
                  /\ \A other \in app'[q] : table'[q][other] = table[q][other]
                  BY <1>1, <1>10, <2>2 DEF CloseUnsets, TypeOK
            <3>3. CASE \E other \in app[q] : table[q][other] = k
                  BY <2>2, <3>1, <3>2, <3>3 DEF Held, At
            <3>4. CASE \E u \in AllThreads :
                          Proc(u) = q /\ thr[u].at \in {"set", "ask", "close"} /\ thr[u].ch = k
                  BY <3>1, <3>4, Zenon DEF Held
            <3>5. QED BY <2>1, <3>3, <3>4, Zenon DEF Held
      <2>3. CASE q # Proc(t)
            <3>1. /\ app'[q] = app[q] /\ table'[q] = table[q]
                  /\ \A u \in AllThreads \ {t} : thr'[u] = thr[u]
                  BY <1>1, <1>10, <2>3, Zenon DEF CloseUnsets, TypeOK
            <3>2. QED BY <1>1, <2>1, <2>3, <3>1, HeldKept, Zenon
      <2>4. QED BY <2>2, <2>3, Zenon
<1>11. ASSUME NEW t \in AllThreads, CloseChan(t) PROVE Held(q, k)'
      <2>1. ~(q = Proc(t) /\ k = thr[t].ch) /\ kfds'[q][k] = kfds[q][k]
            BY <1>1, <1>11, Zenon DEF CloseChan, TypeOK
      <2>2. Held(q, k)
            BY <1>1, <1>2, <1>11, <2>1, Zenon DEF CloseChan
      <2>3. \A u \in AllThreads \ {t} : thr'[u] = thr[u]
            BY <1>1, <1>11, Zenon DEF CloseChan, TypeOK
      <2>4. QED BY <1>11, <2>1, <2>2, <2>3, Zenon DEF CloseChan, Held
<1>12. ASSUME NEW t \in AllThreads, NEW j \in KernelFds, OpensFile(t, j) \/ ClosesFile(t, j)
       PROVE  Held(q, k)'
      <2>1. kfds'[q][k] = kfds[q][k]
            <3>1. PICK f \in {File, Free} : kfds' = [kfds EXCEPT ![Proc(t)][j] = f]
                  BY <1>12, Zenon DEF OpensFile, ClosesFile
            <3>2. f \notin Chans
                  BY Zenon
            <3>3. CASE q = Proc(t) /\ k = j
                  <4>1. kfds'[q][k] = f
                        BY <1>1, <3>1, <3>3, Zenon DEF TypeOK
                  <4>2. QED BY <3>2, <4>1, Zenon
            <3>4. CASE ~(q = Proc(t) /\ k = j)
                  BY <1>1, <3>1, <3>4, Zenon DEF TypeOK
            <3>5. QED BY <3>3, <3>4, Zenon
      <2>2. QED BY <1>1, <1>2, <1>12, <2>1, Zenon DEF OpensFile, ClosesFile, Held
<1>13. ASSUME NEW t \in AllThreads, Fork(t) PROVE Held(q, k)'
      <2>1. CASE q = "parent"
            <3>1. /\ app'[q] = app[q] /\ table'[q] = table[q] /\ kfds'[q] = kfds[q]
                  /\ thr' = thr
                  BY <1>1, <1>13, <2>1, Zenon DEF Fork, TypeOK
            <3>2. q \notin raced /\ q \notin overrun /\ run[q] = "up"
                  BY <1>13, <2>1, Zenon DEF Fork, Procs
            <3>3. Held(q, k)
                  BY <1>2, <2>1, <3>1, <3>2, Zenon
            <3>4. QED BY <1>1, <3>1, <3>3, HeldKept, Zenon
      <2>2. CASE q = "child"
            <3>1. "parent" \notin raced /\ "parent" \notin overrun
                  BY <1>13, <2>2, Zenon DEF Fork, Procs
            <3>2. /\ kfds'[q] = kfds["parent"] /\ table'[q] = table["parent"]
                  /\ app'[q] = app["parent"] /\ run["parent"] = "up"
                  BY <1>1, <1>13, <2>2, Zenon DEF Fork, TypeOK, Procs
            <3>3. Held("parent", k)
                  <4>1. kfds["parent"][k] \in Chans /\ "parent" \in Procs \ (raced \cup overrun)
                        BY <3>1, <3>2, Zenon DEF Procs
                  <4>2. NoChannelLost
                        BY Zenon DEF IInv
                  <4>3. QED BY <3>2, <4>1, <4>2, Zenon DEF NoChannelLost, Held
            <3>4. \A u \in AllThreads : Proc(u) = "parent" => thr[u].at \notin {"set", "ask", "close"}
                  BY <1>13, <2>2, Zenon DEF Fork, Proc, AllThreads
            <3>5. QED BY <3>2, <3>3, <3>4, Zenon DEF Held
      <2>3. QED BY <1>1, <2>1, <2>2, Zenon DEF Procs
<1>14. CASE UNCHANGED vars
      BY <1>1, <1>2, <1>14, Zenon DEF vars, Held
<1>15. ASSUME NEW t \in AllThreads, SocketFails(t) PROVE Held(q, k)'
      BY <1>7, <1>15, Zenon DEF SocketFails
<1>16. QED
      BY <1>3, <1>4, <1>5, <1>6, <1>8, <1>9, <1>10, <1>11, <1>12, <1>13, <1>14, <1>15, <1>17,
         Zenon DEF Next

LEMMA Initially == Init => IInv
<1> SUFFICES ASSUME Init PROVE IInv
    BY Zenon
<1> USE ConstantTypes, FileKinds, ProcType
<1>1. TypeOK
      <2>1. 0 \in Nat /\ 0 \in KernelFds /\ {} \in SUBSET VeloxFds /\ {} \in SUBSET Nat
            BY Zenon
      <2>2. kfds \in [Procs -> [KernelFds -> Free..ProcChan]]
            BY Zenon DEF Init
      <2>3. thr \in [AllThreads -> [at : {"idle", "inc", "open", "set", "ask", "close"},
                                    fd : Nat, ch : KernelFds]]
            BY Zenon DEF Init, Idle, At
      <2>4. chans \in 0..MaxSockets
            BY DEF Init
      <2>5. QED BY <2>1, <2>2, <2>3, <2>4, Zenon DEF Init, TypeOK
<1>2. Counting
      BY DEF Init, Counting, CountingThr, OverrunNeedsExhaustion, Idle, At
<1>3. ASSUME NEW p \in Procs PROVE Fresh(p)
      BY FS_EmptySet, Zenon DEF Init, Fresh, Idle, At
<1>4. ASSUME NEW p \in Procs PROVE Mapped(p) /\ Entered(p)
      BY Zenon DEF Init, Mapped, Entered, Idle, At
<1>5. NoChannelLost
      BY Zenon DEF Init, NoChannelLost
<1>6. QED BY <1>1, <1>2, <1>3, <1>4, <1>5, Zenon DEF IInv

LEMMA Inductive == IInv /\ [Next]_vars => IInv'
<1> SUFFICES ASSUME IInv, [Next]_vars PROVE IInv'
    BY Zenon
<1>1. TypeOK' /\ Counting'
      BY TypeStep, CountingStep, Zenon DEF IInv
<1>2. \A p \in Procs \ raced' : Fresh(p)'
      BY FreshStep, Zenon
<1>3. \A p \in Procs \ raced' : Mapped(p)' /\ Entered(p)'
      BY MappedStep, EnteredStep, Zenon
<1>4. NoChannelLost'
      BY HeldStep, Zenon DEF NoChannelLost, Held
<1>5. QED BY <1>1, <1>2, <1>3, <1>4, Zenon DEF IInv

LEMMA Invariance == Spec => []IInv
BY Initially, Inductive, PTL DEF Spec
-----------------------------------------------------------------------------
\* Every variable keeps its type; a descriptor the application has open lies in
\* the range, so fd_chanmap never reads behind the table.
THEOREM TypeCorrect == Spec => []TypeOK
<1>1. IInv => TypeOK
      BY Zenon DEF IInv
<1>2. QED BY <1>1, Invariance, PTL

\* next_avail_fd gives no descriptor twice while its callers do not meet, for
\* any number of threads and calls.
THEOREM GivenOnceCorrect == Spec => []GivenOnce
<1>1. IInv => GivenOnce
      BY Zenon DEF IInv, Fresh, GivenOnce
<1>2. QED BY <1>1, Invariance, PTL

\* The table is written behind its end only after more than FdCount calls of
\* socket(), with or without races and forks, for any range.
THEOREM OverrunNeedsExhaustionCorrect == Spec => []OverrunNeedsExhaustion
<1>1. IInv => OverrunNeedsExhaustion
      BY Zenon DEF IInv, Counting
<1>2. QED BY <1>1, Invariance, PTL

\* The channel map is exact: what the application has open is mapped to an open
\* channel of its own, for any number of threads, sockets and descriptors.
THEOREM MapIsExactCorrect == Spec => []MapIsExact
<1>1. ASSUME IInv PROVE MapIsExact
      <2> SUFFICES ASSUME NEW p \in Procs \ raced, NEW fd \in app[p]
                   PROVE  /\ kfds[p][table[p][fd]] \in Chans
                          /\ \A other \in app[p] \ {fd} :
                                kfds[p][table[p][fd]] # kfds[p][table[p][other]]
          BY Zenon DEF MapIsExact
      <2>1. Mapped(p) /\ TypeOK
            BY <1>1, Zenon DEF IInv
      <2>2. \A other \in app[p] : table[p][other] \in KernelFds
            BY <2>1 DEF TypeOK
      <2>3. QED BY <2>1, <2>2, Zenon DEF Mapped
<1>2. QED BY <1>1, Invariance, PTL

\* No open channel is lost but by a race, behind the end of the range, or by a
\* fork in the middle of another thread's socket() or close().
THEOREM NoChannelLostCorrect == Spec => []NoChannelLost
<1>1. IInv => NoChannelLost
      BY Zenon DEF IInv
<1>2. QED BY <1>1, Invariance, PTL
=============================================================================
