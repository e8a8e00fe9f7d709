------------------------------ MODULE Checksum ------------------------------
(***************************************************************************)
(* The checksums al_process_v4 writes into a translated packet             *)
(* (al_chksum.c), on a little-endian host.  A byte has Base values instead *)
(* of 256, so that a word has Base^2 and the accumulators Base^4.          *)
(*                                                                         *)
(* A packet is a chain of mbufs.  Each holds some bytes, at an even or odd *)
(* address; together they are the TCP segment or UDP datagram, with zero   *)
(* in the word at offset 16, and what the sender padded the frame with.    *)
(* al_process_v4 has no test of the protocol and writes the sum into that  *)
(* word: the checksum of TCP, but data of a UDP datagram, whose checksum,  *)
(* at offset 6, is left as it was and is among the bytes summed.  The word *)
(* is outside the datagram when it has fewer than ten bytes of data.       *)
(***************************************************************************)
EXTENDS Integers, Sequences, SequencesExt, FiniteSetsExt

CONSTANTS
  Base,             \* values of a byte
  MaxData,          \* bytes of a segment and its padding
  MaxPad,           \* bytes of padding
  IPPROTO_TCP, IPPROTO_UDP,
  PairsOfAddresses  \* bytes of a source and a destination

ASSUME ChecksumAssumption ==
  /\ Base \in Nat \ {0, 1} /\ MaxData \in 1..(Base^2 - 1)
  /\ MaxPad \in Nat /\ {IPPROTO_TCP, IPPROTO_UDP} \subseteq 0..(Base - 1)
  /\ \A a \in PairsOfAddresses : a \in Seq(0..(Base - 1)) /\ Len(a) % 2 = 0

VARIABLES
  packet,     \* [proto, within, bytes, pad, addrs, mbufs], or <<>>;
              \*   within: the word at offset 16 is in the segment;
              \*   mbufs : Seq([odd, bytes])
  cksum       \* the words written, <<>> before that
checksumVars == <<packet, cksum>>

Bytes == 0..(Base - 1)
Word == Base^2
Acc == 0..(Base^4 - 1)

(* A word in memory, as the host and as the network read it.               *)
Host(b) == b[1] + Base * b[2]
Net(b) == Base * b[1] + b[2]
SWAP_BYTES_IN_WORD[w \in Acc] == ((w % Base) * Base) + ((w \div Base) % Base)
FOLD_U32T[u \in Acc] == (u \div Word) + (u % Word)
SumOf(s) == LET sum[i \in 0..Len(s)] == IF i = 0 THEN 0 ELSE sum[i - 1] + s[i]
            IN  sum[Len(s)]
HostSum(words) == SumOf([i \in DOMAIN words |-> Host(words[i])])
NetSum(words) == SumOf([i \in DOMAIN words |-> Net(words[i])])

(* The bytes of s two by two, the last one with a zero if it is alone.     *)
Pairs(s) == [i \in 1..((Len(s) + 1) \div 2) |->
               <<s[2 * i - 1], IF 2 * i <= Len(s) THEN s[2 * i] ELSE 0>>]

(* lwip_standard_chksum: from an odd address the words straddle those of   *)
(* the data, and the first byte is the high half of one of its own.        *)
lwip_standard_chksum(m) ==
  LET s == IF m.odd THEN <<0>> \o m.bytes ELSE m.bytes
      sum == HostSum(Pairs(s)) % Base^4
      folded == FOLD_U32T[FOLD_U32T[sum]]
  IN  (IF m.odd THEN SWAP_BYTES_IN_WORD[folded] ELSE folded) % Word

(* One mbuf of the loop of inet_chksum_pseudo; c is <<acc, swapped>>.      *)
AddMbufAligned(c, m) ==
  <<FOLD_U32T[(c[1] + lwip_standard_chksum(m)) % Base^4], c[2]>>
AddMbuf(c, m) ==
  LET acc == FOLD_U32T[(c[1] + lwip_standard_chksum(m)) % Base^4] IN
  IF Len(m.bytes) % 2 # 0 THEN <<SWAP_BYTES_IN_WORD[acc], ~c[2]>> ELSE <<acc, c[2]>>

inet_chksum_pseudo(mbufs, addrs, proto, len) ==
  LET c == FoldLeft(AddMbuf, <<0, FALSE>>, mbufs)
      acc == (IF c[2] THEN SWAP_BYTES_IN_WORD[c[1]] ELSE c[1])
               + HostSum(Pairs(addrs))
               + SWAP_BYTES_IN_WORD[proto] + SWAP_BYTES_IN_WORD[len]
  IN  Word - 1 - (FOLD_U32T[FOLD_U32T[acc % Base^4]] % Word)

SegmentLen(p) == Len(p.bytes) - p.pad
-----------------------------------------------------------------------------
(* A frame with these bytes, cut into mbufs after the positions in cuts;   *)
(* those that start after a position in odds are at an odd address.        *)
Mbufs(bytes, cuts, odds) ==
  LET ends == SetToSortSeq(cuts \cup {Len(bytes)}, <)
      from(i) == IF i = 1 THEN 0 ELSE ends[i - 1]
  IN  [i \in DOMAIN ends |-> [odd |-> from(i) \in odds,
                              bytes |-> SubSeq(bytes, from(i) + 1, ends[i])]]

ChecksumInit == packet = <<>> /\ cksum = <<>>

(* A frame arrives.                                                        *)
FrameArrives ==
  /\ packet = <<>>
  /\ \E n \in 1..MaxData : \E cuts \in SUBSET (1..(n - 1)) :
       \E bytes \in [1..n -> Bytes], pad \in 0..Min({n - 1, MaxPad}),
          odds \in SUBSET (cuts \cup {0}), addrs \in PairsOfAddresses,
          proto \in {IPPROTO_TCP, IPPROTO_UDP}, within \in BOOLEAN :
         /\ proto = IPPROTO_TCP => within
         /\ packet' = [proto |-> proto, within |-> within, bytes |-> bytes,
                       pad |-> pad, addrs |-> addrs,
                       mbufs |-> Mbufs(bytes, cuts, odds)]
  /\ UNCHANGED cksum

(* al_process_v4: the sum over the whole chain, into the word at offset 16 *)
(* (l4), and by inet_chksum the one of the IP header, of which only the    *)
(* addresses are here.                                                     *)
al_process_v4 ==
  /\ packet # <<>> /\ cksum = <<>>
  /\ cksum' = [l4 |-> inet_chksum_pseudo(packet.mbufs, packet.addrs,
                         packet.proto, SegmentLen(packet)),
               ip |-> Word - 1 - lwip_standard_chksum([odd |-> FALSE,
                        bytes |-> packet.addrs])]
  /\ UNCHANGED packet

(* send_to_switch.                                                         *)
Sent ==
  /\ cksum # <<>>
  /\ packet' = <<>> /\ cksum' = <<>>

ChecksumNext == FrameArrives \/ al_process_v4 \/ Sent

ChecksumSpec == ChecksumInit /\ [][ChecksumNext]_checksumVars
-----------------------------------------------------------------------------
(* The one's complement sum of words a receiver computes is all ones.      *)
Accepted(words, field) ==
  (NetSum(words) + SWAP_BYTES_IN_WORD[field]) % (Word - 1) = 0

(* Whoever receives a packet that al_process_v4 rewrote accepts both its   *)
(* checksums, wherever the chain of mbufs is cut and however its parts are *)
(* aligned: the byte swaps of lwip_standard_chksum and inet_chksum_pseudo  *)
(* cancel out and no carry is lost.  Padding is summed with the segment,   *)
(* so it must be zero.  This holds of every TCP segment, and of a UDP      *)
(* datagram that has the word at offset 16: the receiver sums that word    *)
(* with the stale checksum, and does not see that data were overwritten.   *)
(* A shorter datagram keeps the checksum of its old addresses.             *)
ReceiverAgrees ==
  cksum # <<>> =>
    LET n == SegmentLen(packet)
        pseudo == Pairs(packet.addrs)
                    \o <<<<0, packet.proto>>, <<n \div Base, n % Base>>>>
    IN  /\ Accepted(Pairs(packet.addrs), cksum.ip)
        /\ packet.within /\ (\A i \in (n + 1)..Len(packet.bytes) : packet.bytes[i] = 0)
             => Accepted(Pairs(SubSeq(packet.bytes, 1, n)) \o pseudo, cksum.l4)
=============================================================================
