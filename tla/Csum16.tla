------------------------------- MODULE Csum16 -------------------------------
(***************************************************************************)
(* The Internet checksum (veloxd/base/Csum16.cpp) and what is computed     *)
(* with it when a segment leaves: the TCP checksum over a pseudo header    *)
(* laid over the IP header (TcpSession::prepareBeforeIpTx) and the IP      *)
(* header's own (Ip::tx).                                                  *)
(*                                                                         *)
(* Memory is a sequence of bytes.  A word is read in the byte order of the *)
(* host, little endian, as the pointers to uint16_t do.                    *)
(***************************************************************************)
EXTENDS Naturals, Sequences

Bytes == 0..255
Word == 65536

\* htons as it leaves the bytes of x in memory.
htons(x) == <<(x \div 256) % 256, x % 256>>
InMemory(w) == <<w % 256, w \div 256>>

\* The loop over count bytes: whole words, then a left-over byte.
Sum(bytes) ==
    LET n == Len(bytes)
        sum[i \in 0..n] ==
            IF i = 0 THEN 0
            ELSE sum[i - 1] + (IF i % 2 = 1 THEN bytes[i] ELSE 256 * bytes[i])
    IN  sum[n]

\* The 32-bit sum folded to 16 bits.  Two rounds end the loop for all sums
\* below 2^32.
Fold(sum) ==
    LET once(x) == (x % Word) + (x \div Word)
    IN  once(once(sum))

\* checksum, cut to the 16 bits of the field it is stored in.
checksum(bytes, start_sum) == Word - 1 - Fold(start_sum + Sum(bytes))

\* A region that holds its checksum, for a receiver: in one's complement its
\* sum is zero.
Verifies(bytes) == Sum(bytes) % (Word - 1) = 0
-----------------------------------------------------------------------------
(* Headers.  laddr and faddr are four bytes each.                          *)

Zeros(n) == [i \in 1..n |-> 0]

\* struct PseudoHdr, over the place of the IP header.
PseudoHdr(tos, len, ttl, protocol, protocol_len, laddr, faddr) ==
    <<0, tos>> \o len \o Zeros(4) \o <<ttl, protocol>> \o protocol_len \o laddr \o faddr

\* The TCP header without options; check at bytes 17 and 18.
TcpHdr(ports, seqs, flags, check) ==
    ports \o seqs \o <<80, flags>> \o htons(4096) \o check \o Zeros(2)

\* Mutant: ttl and length are filled in before the checksum is taken.
TcpCheck_HeaderFirst(ports, seqs, flags, laddr, faddr, buf) ==
    checksum(PseudoHdr(0, htons(Len(buf) + 40), 64, 6, htons(Len(buf) + 20),
                       laddr, faddr)
             \o TcpHdr(ports, seqs, flags, Zeros(2)), Sum(buf))

\* prepareBeforeIpTx: the checksum is taken with only protocol, protocol_len
\* and the addresses filled in; the sum of the payload goes in as start_sum.
TcpCheck(ports, seqs, flags, laddr, faddr, buf) ==
    checksum(PseudoHdr(0, Zeros(2), 0, 6, htons(Len(buf) + 20), laddr, faddr)
             \o TcpHdr(ports, seqs, flags, Zeros(2)), Sum(buf))

\* The header as it leaves prepareBeforeIpTx, with version, ihl and id as
\* Ip::tx writes them; check at bytes 11 and 12.
IpHdr(len, id, protocol, check, laddr, faddr) ==
    <<69, 0>> \o htons(len) \o htons(id) \o Zeros(2) \o <<64, protocol>> \o check
        \o laddr \o faddr

\* Ip::tx: protocol_len, in the place of the checksum, was set back to 0.
IpCheck(len, id, protocol, laddr, faddr) ==
    checksum(IpHdr(len, id, protocol, Zeros(2), laddr, faddr), 0)
=============================================================================
