------------------------------ MODULE Mailbox ------------------------------
(***************************************************************************)
(* What a blocking or non-blocking Velox socket promises a caller of       *)
(* recvfrom: the packets the stack accepted for the socket come back one   *)
(* per call, in order, none twice, none invented; a call that finds        *)
(* nothing waits, or is told so when the socket is non-blocking.           *)
(* The Endpoint module is shown to implement this.                         *)
(***************************************************************************)
EXTENDS Naturals, Sequences

CONSTANTS Sockets,      \* the sockets of the daemon
          Nonblocking,  \* those created with SOCK_NONBLOCK
          Packets,      \* everything a packet may be
          Capacity      \* packets a socket may hold

VARIABLES box,      \* box[s]: packets accepted for s and not yet returned
          reader,   \* reader[s]: whether a recvfrom on s is outstanding
          returned  \* returned[s]: packets returned by recvfrom, in order

boxVars == <<box, reader, returned>>

BoxInit ==
    /\ box = [s \in Sockets |-> <<>>]
    /\ reader = [s \in Sockets |-> "idle"]
    /\ returned = [s \in Sockets |-> <<>>]

\* The stack accepts packet p for s; a full socket takes no step: p is lost.
Accept(s, p) ==
    /\ Len(box[s]) < Capacity
    /\ box' = [box EXCEPT ![s] = Append(@, p)]
    /\ UNCHANGED <<reader, returned>>

Ask(s) ==
    /\ reader[s] = "idle"
    /\ reader' = [reader EXCEPT ![s] = "reading"]
    /\ UNCHANGED <<box, returned>>

Return(s) ==
    /\ reader[s] = "reading"
    /\ box[s] # <<>>
    /\ box' = [box EXCEPT ![s] = Tail(@)]
    /\ returned' = [returned EXCEPT ![s] = Append(@, Head(box[s]))]
    /\ reader' = [reader EXCEPT ![s] = "idle"]

ReturnAgain(s) ==
    /\ reader[s] = "reading"
    /\ s \in Nonblocking
    /\ box[s] = <<>>
    /\ reader' = [reader EXCEPT ![s] = "idle"]
    /\ UNCHANGED <<box, returned>>

BoxNext ==
    \E s \in Sockets :
        \/ \E p \in Packets : Accept(s, p)
        \/ Ask(s)
        \/ Return(s)
        \/ ReturnAgain(s)

BoxSpec == BoxInit /\ [][BoxNext]_boxVars

\* The progress half of the promise: a call on a socket that holds a packet,
\* or on a non-blocking one, returns.
BoxFairness == \A s \in Sockets : WF_boxVars(Return(s) \/ ReturnAgain(s))
=============================================================================
