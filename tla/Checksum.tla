------------------------------ MODULE Checksum ------------------------------
(***************************************************************************)
(* The Internet checksum and the prefix match (src/utils.c).  A packet is  *)
(* the sequence of its words of WordMod values (2^16 in the code); the odd *)
(* last byte is a word like any other, its other half being zero.          *)
(***************************************************************************)
EXTENDS Integers, Sequences, SequencesExt

CONSTANT WordMod

ASSUME WordAssumption == WordMod \in Nat /\ WordMod > 1

Total(words) ==
  LET sum[i \in 0..Len(words)] == IF i = 0 THEN 0 ELSE sum[i - 1] + words[i]
  IN  sum[Len(words)]

\* The loop that adds what is above the low word to the low word, until nothing
\* is above.
EndAroundCarry(sum) ==
  LET fold[s \in 0..sum] ==
        IF s < WordMod THEN s ELSE fold[(s % WordMod) + (s \div WordMod)]
  IN  fold[sum]

\* Mutants: carries are added once only; the last word is left out.
checksum_one_carry(words) ==
  (WordMod - 1 - ((Total(words) % WordMod) + (Total(words) \div WordMod))) % WordMod
checksum_drops_last(words) == WordMod - 1 - EndAroundCarry(Total(Front(words)))

checksum16(words) == WordMod - 1 - EndAroundCarry(Total(words))

\* What a peer puts into the checksum field of a UDP datagram (RFC 768): the
\* complement of the one's complement sum, zero being sent as all ones.
PeerChecksum(words) ==
  LET s == Total(words)
      sum == IF s = 0 THEN 0 ELSE ((s - 1) % (WordMod - 1)) + 1
  IN  IF sum = WordMod - 1 THEN WordMod - 1 ELSE WordMod - 1 - sum

\* ip_prefix_match of two addresses, given as sequences of bits.
ip_prefix_match(a, b) ==
  LET differ == {i \in DOMAIN a : a[i] # b[i]}
  IN  IF differ = {} THEN Len(a) ELSE (CHOOSE i \in differ : \A j \in differ : i <= j) - 1
=============================================================================
