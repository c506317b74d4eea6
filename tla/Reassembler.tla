---------------------------- MODULE Reassembler -----------------------------
(***************************************************************************)
(* Reassembler::defrag (veloxd/ip/reassembly/Reassembler.cpp) as operators *)
(* on its list of fragment groups.  Module Ip calls them.                  *)
(*                                                                         *)
(* A fragment is a record with the key of its datagram (id, protocol and   *)
(* addresses), its offset in units of 8 bytes, the MF bit and the length   *)
(* of its data.  Headers have no options.  The 60 second timer of a group  *)
(* never fires, since nothing runs the libev loop it is started on.        *)
(***************************************************************************)
EXTENDS Naturals, Sequences

IpHdrLen == 20
ihl == 5

\* The frag_off field: offset and MF, and as read without __be16_to_cpu.
FragOff(f) == f.off + (IF f.mf THEN 8192 ELSE 0)
Swap(x) == 256 * (x % 256) + x \div 256
RawOffset(f) == Swap(FragOff(f)) % 8192

\* isFrag.
isFrag(f) == FragOff(f) # 0
-----------------------------------------------------------------------------
\* 1. and 2. The group of f, a new empty one at the end if there is none.
FindGroup(groups, f) ==
    IF \E i \in DOMAIN groups : groups[i].key = f.key
    THEN groups
    ELSE Append(groups, [key |-> f.key, frags |-> <<>>])

GroupOf(groups, key) == CHOOSE i \in DOMAIN groups : groups[i].key = key

\* The fragments that the walk of step 3 passes: those whose offset is less
\* than ours, which is not byte swapped here.
Passed(frags, f) ==
    CHOOSE n \in 0..Len(frags) :
        /\ \A i \in 1..n : RawOffset(f) > frags[i].off
        /\ n < Len(frags) => RawOffset(f) <= frags[n + 1].off

GoesFirst(frags, f) == frags = <<>> \/ frags[1].off > f.off

\* The walk stops at once: prev is null and prev->next = skbuf a null access.
PrevIsNull(frags, f) == ~GoesFirst(frags, f) /\ Passed(frags, f) = 0

\* Mutant: the new fragment replaces the one it is put before.
Insert_Replaces(frags, f) ==
    IF GoesFirst(frags, f)
    THEN <<f>> \o (IF frags = <<>> THEN <<>> ELSE Tail(frags))
    ELSE LET n == Passed(frags, f)
         IN  SubSeq(frags, 1, n) \o <<f>> \o SubSeq(frags, n + 1, Len(frags))

\* 3. Insert into the group.
Insert(frags, f) ==
    IF GoesFirst(frags, f)
    THEN <<f>> \o frags
    ELSE LET n == Passed(frags, f)
         IN  SubSeq(frags, 1, n) \o <<f>> \o SubSeq(frags, n + 1, Len(frags))

End(f) == 8 * f.off + f.len

\* Mutant: the offsets are not compared, only the last fragment's MF.
Present_LastOnly(frags) == frags[1].off = 0 /\ ~frags[Len(frags)].mf

\* 4. The offsets are contiguous from 0 on, and the last fragment's MF is 0.
Present(frags) ==
    /\ \A i \in DOMAIN frags :
          8 * frags[i].off = IF i = 1 THEN 0 ELSE End(frags[i - 1])
    /\ ~frags[Len(frags)].mf

\* 5. The tot_len written into the first header; both fields are 16 bits.
TotLen(frags) ==
    LET payloadlen == End(frags[Len(frags)]) % 65536
    IN  (payloadlen + IpHdrLen) % 65536

\* 5. Where the user payload of the i-th buffer begins, counted from the start
\* of its bytes: for the first UdpSession::recv skips both headers, for the
\* others defrag adds ihl, a count of 32-bit words.
PayloadBegin(i) == IF i = 1 THEN IpHdrLen + 8 ELSE ihl

\* The bytes of a fragment in its buffer: TunIface::rx reads no more than it holds.
maxRawBytesSize == 1518
RawBytes(f) ==
    IF IpHdrLen + f.len <= maxRawBytesSize THEN IpHdrLen + f.len ELSE maxRawBytesSize

\* How many bytes drain_skbuf_chain (RpcDispatch.cpp) appends for recvfrom.
Drained(frags) ==
    LET n[i \in 0..Len(frags)] ==
            IF i = 0 THEN 0 ELSE n[i - 1] + RawBytes(frags[i]) - PayloadBegin(i)
    IN  n[Len(frags)]

\* Mutant: the group is emptied and stays in the list.
Defrag_EmptiesGroup(groups, f) ==
    LET gs == FindGroup(groups, f)
        i == GroupOf(gs, f.key)
        frags == Insert(gs[i].frags, f)
    IN  [groups |-> [gs EXCEPT ![i].frags = IF Present(frags) THEN <<>> ELSE frags],
         packet |-> IF Present(frags) THEN frags ELSE <<>>]

\* defrag: the groups it leaves, and the chain it returns (empty for nullptr).
Defrag(groups, f) ==
    LET gs == FindGroup(groups, f)
        i == GroupOf(gs, f.key)
        frags == Insert(gs[i].frags, f)
    IN  IF Present(frags)
        THEN [groups |-> SubSeq(gs, 1, i - 1) \o SubSeq(gs, i + 1, Len(gs)),
              packet |-> frags]
        ELSE [groups |-> [gs EXCEPT ![i].frags = frags],
              packet |-> <<>>]
=============================================================================
