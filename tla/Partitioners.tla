---------------------------- MODULE Partitioners ----------------------------
(***************************************************************************)
(* The two functions of p6/mapreduce.c that choose the partition of a key. *)
(* A key is a string, the sequence of its character codes; the sort client *)
(* has decimal numerals, which MR_SortedPartition reads as numbers.        *)
(***************************************************************************)
EXTENDS Integers, Sequences, SequencesExt

CONSTANTS Key,       \* the keys there are
          KeyBits,   \* bits of the number of a key: 32 in MR_SortedPartition
          ULongSize, \* an unsigned long counts modulo ULongSize
          NumPart    \* num_part, the number of partitions

Partition == 0..(NumPart - 1)

ASSUME WidthAssumption == /\ KeyBits \in Nat /\ ULongSize \in Nat \ {0}
                          /\ NumPart \in 1..(2^KeyBits)
ASSUME KeyAssumption   == Key # {} /\ Key \subseteq Seq(Nat)

\* The number that a string of decimal digits writes.
atol(key) == FoldLeft(LAMBDA n, c : 10 * n + (c - 48), 0, key)

\* The floor of the binary logarithm.
log2n[n \in Nat] == IF n > 1 THEN 1 + log2n[n \div 2] ELSE 0

\* Mutant: the low bits of the number choose its partition.
LowBits(key) == atol(key) % NumPart

\* The high bits of the number: with n partitions, the first log2n(n) of them.
Shift == KeyBits - log2n[NumPart]
MR_SortedPartition(key) == atol(key) \div 2^Shift

MR_DefaultHashPartition(key) ==
    FoldLeft(LAMBDA hash, c : (hash * 33 + c) % ULongSize,
             5381 % ULongSize, key) % NumPart

\* What arithmetic says of these definitions in every instance, and what the
\* provers, who know nothing of powers and of folds, need to be told.
ASSUME PowerAssumption == /\ 2^KeyBits \in Nat /\ 2^Shift \in Nat \ {0}
                          /\ 2^KeyBits <= NumPart * 2^Shift
ASSUME HashAssumption  == \A k \in Key : MR_DefaultHashPartition(k) \in Partition
=============================================================================
