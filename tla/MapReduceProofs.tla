-------------------------- MODULE MapReduceProofs --------------------------
(***************************************************************************)
(* Proofs about MapReduce for any number of threads, files, keys and       *)
(* partitions: work is private, every line is counted once, the outputs    *)
(* are in order, and MR_Run() implements GroupByKey.                       *)
(***************************************************************************)
EXTENDS MapReduce, FiniteSetTheorems, FunctionTheorems, SequenceTheorems, WellFoundedInduction,
        TLAPS

(***************************************************************************)
(* The invariant.                                                          *)
(***************************************************************************)

MapPlace == {"map_test", "map_take", "map_open", "map_line"}
RedPlace == {"red_test", "red_take", "red_loop", "get_next"}
Early    == main \in {"mapping", "sorting", "aborted"}

\* Mappers run before MR_Run() sorts, reducers after it.
PhaseInv ==
  /\ \A t \in Mapper : pc[t] = "exited" \/ (pc[t] \in MapPlace /\ main \in {"mapping", "aborted"})
  /\ \A t \in Reducer : /\ Early <=> pc[t] = "uncreated"
                        /\ ~Early => pc[t] \in RedPlace \union {"exited"}
                        /\ main = "returned" => pc[t] = "exited"
  /\ Early => part_num = 0 /\ out = <<>>
  /\ main \in {"mapping", "aborted"} => sortAt = 0
  /\ ~Early => sortAt = NumPart

\* An index was taken from its counter, and who has exited saw it at its end.
IndexInv ==
  /\ \A t \in Mapper : /\ Mapping(t) => index[t] \in 1..files
                       /\ pc[t] = "map_line" => /\ index[t] \in File
                                                /\ line[t] <= Len(content[index[t]])
                       /\ pc[t] = "exited" => files >= TotalFiles
  /\ \A t \in Reducer : /\ Reducing(t) => index[t] < part_num
                        /\ pc[t] = "get_next" => index[t] \in Partition
                        /\ pc[t] = "exited" => part_num >= NumPart

\* strcmp(k, l) <= 0.
NotAfter(k, l) == ~Before(l, k)

\* A bucket has the keys of its partition, and their number; those that have
\* been sorted are in order.
BucketInv ==
  /\ Early => \A p \in Partition : size[p] = Len(hashtable[p])
  /\ \A p \in Partition : \A j \in DOMAIN hashtable[p] : Part(hashtable[p][j].key) = p
  /\ \A p \in Partition : p < sortAt =>
       \A i, j \in DOMAIN hashtable[p] : i < j => NotAfter(hashtable[p][i].key, hashtable[p][j].key)

\* The lines that have been emitted: those of the files that were taken, but for
\* what a mapper has still to read.
Read(f, j)   == /\ f <= files
                /\ \A t \in Mapper : Mapping(t) /\ index[t] = f =>
                                        pc[t] = "map_line" /\ j <= line[t]
ReadLines(k) == {e \in Lines(k) : Read(e[1], e[2])}
EmitInv      == \A k \in Key : Emitted(k) = Cardinality(ReadLines(k))

\* What a reducer has left of its partition is not below the key that it is at, nor
\* up to what it has printed of it; a partition that no reducer has any more is empty.
AtKey(t)    == pc[t] = "get_next" =>
                 LET list == hashtable[index[t]]
                 IN  /\ Part(key[t]) = index[t]
                     /\ \A j \in DOMAIN list : NotAfter(key[t], list[j].key)
                     /\ count[t] = 0 => list # <<>> /\ list[1].key = key[t]
Above(i, p) == Part(out[i].key) = p =>
                 /\ \A j \in DOMAIN hashtable[p] : Before(out[i].key, hashtable[p][j].key)
                 /\ \A t \in Reducer : pc[t] = "get_next" /\ index[t] = p =>
                                         Before(out[i].key, key[t])
InOrder(i, j) == i < j /\ Part(out[i].key) = Part(out[j].key) => Before(out[i].key, out[j].key)
Finished(p) == p < part_num =>
                 hashtable[p] = <<>> \/ \E t \in Reducer : Reducing(t) /\ index[t] = p
ReduceInv ==
  /\ \A t \in Reducer : AtKey(t)
  /\ \A i \in DOMAIN out, p \in Partition : Above(i, p)
  /\ \A i, j \in DOMAIN out : InOrder(i, j)
  /\ \A p \in Partition : Finished(p)

Safe == TypeOK /\ PhaseInv /\ IndexInv /\ WorkPrivate /\ BucketInv /\ ReduceInv
IInv == Safe /\ EmitInv

(***************************************************************************)
(* Keys, partitions and least keys.                                        *)
(***************************************************************************)

LEMMA Numbers == /\ Partition \subseteq Nat /\ NumPart \in Nat \ {0}
                 /\ TotalFiles \in Nat /\ File \subseteq Nat \ {0} /\ IsFiniteSet(File)
                 /\ \A t \in Mapper : t \notin Reducer
<1>1. IsFiniteSet(File)
  BY FileAssumption, FS_Interval DEF File
<1> QED BY <1>1, WidthAssumption, FileAssumption, ThreadAssumption DEF Partition, File

\* The top bits of a number are below the number of partitions.
LEMMA SortedPartitionIn ==
  ASSUME "sort" \in Client
  PROVE  \A k \in Key : MR_SortedPartition(k) \in Partition
<1> DEFINE c == 2^Shift
<1> SUFFICES ASSUME NEW k \in Key PROVE atol(k) \div c \in 0..(NumPart - 1)
  BY DEF MR_SortedPartition, Partition
<1>1. PICK v : v = atol(k)
  OBVIOUS
<1>2. c \in Nat \ {0} /\ v \in Nat /\ NumPart \in Nat /\ v < NumPart * c
  BY <1>1, PowerAssumption, WidthAssumption, SortAssumption
<1> HIDE DEF c
<1>3. v \div c \in Nat /\ c * (v \div c) <= v
  BY <1>2
<1>4. ASSUME v \div c >= NumPart PROVE FALSE
  <2>1. c * (v \div c) >= c * NumPart
    BY <1>2, <1>3, <1>4
  <2> QED BY <1>2, <1>3, <2>1
<1> QED BY <1>1, <1>2, <1>3, <1>4

\* The numbers of a lower partition are lower.
LEMMA SortedPartitionOrder ==
  ASSUME "sort" \in Client, NEW k \in Key, NEW l \in Key,
         MR_SortedPartition(k) < MR_SortedPartition(l)
  PROVE  atol(k) < atol(l)
<1> DEFINE c == 2^Shift
<1>1. PICK v, w : v = atol(k) /\ w = atol(l)
  OBVIOUS
<1>2. c \in Nat \ {0} /\ v \in Nat /\ w \in Nat
  BY <1>1, PowerAssumption, SortAssumption
<1>3. v \div c < w \div c
  BY <1>1 DEF MR_SortedPartition
<1> HIDE DEF c
<1>4. ASSUME w <= v PROVE w \div c <= v \div c
  BY <1>2, <1>4
<1> QED BY <1>1, <1>2, <1>3, <1>4

LEMMA PartIn == client \in Client => \A k \in Key : Part(k) \in Partition
BY SortedPartitionIn, HashAssumption DEF Part

LEMMA MinIs ==
  ASSUME NEW S, S \subseteq Nat, S # {}
  PROVE  Min(S) \in S /\ \A x \in S : Min(S) <= x
<1> DEFINE R == {ss \in Nat \X Nat : ss[1] < ss[2]}
<1>1. IsWellFoundedOn(R, Nat)
  BY NatLessThanWellFounded DEF OpToRel
<1>2. PICK x \in S : \A y \in S : ~(<<y, x>> \in R)
  <2> HIDE DEF R
  <2> QED BY <1>1, WFMin
<1>3. ASSUME NEW y \in S PROVE x <= y
  <2>1. x \in Nat /\ y \in Nat
    OBVIOUS
  <2>2. ~(y < x)
    BY <1>2, <2>1
  <2> QED BY <2>1, <2>2
<1> QED BY <1>3 DEF Min

\* strcmp() orders strings: none is before itself, the order is transitive, and of
\* two that differ one is before the other.
LEMMA BeforeIsOrder ==
  ASSUME NEW k \in Seq(Nat), NEW l \in Seq(Nat), NEW m \in Seq(Nat)
  PROVE  /\ ~Before(k, k)
         /\ Before(k, l) /\ Before(l, m) => Before(k, m)
         /\ Before(k, l) \/ k = l \/ Before(l, k)
<1>1. \A s \in {k, l, m} : Len(s) \in Nat /\ \A i \in 1..Len(s) : s[i] \in Nat
  BY LenProperties
<1>2. ~Before(k, k)
  BY <1>1 DEF Before
<1>3. ASSUME Before(k, l), Before(l, m) PROVE Before(k, m)
  <2>1. PICK n \in 0..Len(k) : /\ n < Len(l) /\ \A i \in 1..n : k[i] = l[i]
                               /\ n = Len(k) \/ k[n + 1] < l[n + 1]
    BY <1>3 DEF Before
  <2>2. PICK o \in 0..Len(l) : /\ o < Len(m) /\ \A i \in 1..o : l[i] = m[i]
                               /\ o = Len(l) \/ l[o + 1] < m[o + 1]
    BY <1>3 DEF Before
  <2>3. CASE n < o
    <3>1. n + 1 \in 1..o /\ n < Len(m) /\ \A i \in 1..n : i \in 1..o
      BY <1>1, <2>1, <2>2, <2>3
    <3>2. l[n + 1] = m[n + 1] /\ \A i \in 1..n : k[i] = m[i]
      BY <2>1, <2>2, <3>1
    <3> QED BY <2>1, <3>1, <3>2 DEF Before
  <2>4. CASE o <= n
    <3>1. o \in 0..Len(k) /\ o < Len(l) /\ \A i \in 1..o : i \in 1..n
      BY <1>1, <2>1, <2>2, <2>4
    <3>2. \A i \in 1..o : k[i] = m[i]
      BY <2>1, <2>2, <3>1
    <3>3. l[o + 1] < m[o + 1]
      BY <1>1, <2>2, <3>1
    <3>4. o = Len(k) \/ k[o + 1] < m[o + 1]
      <4>1. CASE o = n
        <5>1. o = Len(k) \/ (o + 1 \in 1..Len(k) /\ o + 1 \in 1..Len(l) /\ o + 1 \in 1..Len(m))
          BY <1>1, <2>1, <2>2, <3>1
        <5>2. CASE o + 1 \in 1..Len(k) /\ o + 1 \in 1..Len(l) /\ o + 1 \in 1..Len(m)
          <6>1. k[o + 1] \in Nat /\ l[o + 1] \in Nat /\ m[o + 1] \in Nat
            BY <1>1, <5>2
          <6>2. k[o + 1] < l[o + 1] \/ o = Len(k)
            BY <2>1, <4>1
          <6> QED BY <3>3, <6>1, <6>2
        <5> QED BY <5>1, <5>2
      <4>2. CASE o < n
        <5>1. o + 1 \in 1..n
          BY <1>1, <2>1, <2>2, <4>2
        <5>2. k[o + 1] = l[o + 1]
          BY <2>1, <5>1
        <5> QED BY <3>3, <5>2
      <4> QED BY <2>1, <2>2, <2>4, <4>1, <4>2
    <3> QED BY <2>2, <3>1, <3>2, <3>4 DEF Before
  <2> QED BY <2>1, <2>2, <2>3, <2>4
<1>4. ASSUME k # l PROVE Before(k, l) \/ Before(l, k)
  <2> DEFINE D == {i \in Nat \ {0} : i > Len(k) \/ i > Len(l) \/ k[i] # l[i]}
  <2>1. D \subseteq Nat /\ Len(k) + 1 \in D
    BY <1>1
  <2>2. PICK d : d = Min(D)
    OBVIOUS
  <2>3. d \in D /\ \A i \in D : d <= i
    <3> HIDE DEF D
    <3> QED BY <2>1, <2>2, MinIs
  <2>4. PICK n \in Nat : d = n + 1
    BY <2>3
  <2>5. \A i \in 1..n : i <= Len(k) /\ i <= Len(l) /\ k[i] = l[i]
    BY <1>1, <2>3, <2>4
  <2>6. n <= Len(k) /\ n <= Len(l)
    BY <1>1, <2>4, <2>5
  <2>7. CASE n = Len(k) /\ n = Len(l)
    <3>1. \A i \in 1..Len(k) : k[i] = l[i]
      BY <2>5, <2>7
    <3> QED BY <1>4, <2>7, <3>1, SeqEqual
  <2>8. CASE n = Len(k) /\ n < Len(l)
    BY <1>1, <2>5, <2>8 DEF Before
  <2>9. CASE n < Len(k) /\ n = Len(l)
    BY <1>1, <2>5, <2>9 DEF Before
  <2>10. CASE n < Len(k) /\ n < Len(l)
    <3>1. k[n + 1] # l[n + 1]
      BY <1>1, <2>3, <2>4, <2>10
    <3>2. n + 1 \in 1..Len(k) /\ n + 1 \in 1..Len(l)
      BY <1>1, <2>4, <2>10
    <3>3. k[n + 1] \in Nat /\ l[n + 1] \in Nat
      BY <1>1, <3>2
    <3>4. k[n + 1] < l[n + 1] \/ l[n + 1] < k[n + 1]
      BY <3>1, <3>3
    <3>5. n \in 0..Len(k) /\ n \in 0..Len(l) /\ n < Len(k) /\ n < Len(l)
      BY <1>1, <2>4, <2>10
    <3>6. (\A i \in 1..n : k[i] = l[i]) /\ (\A i \in 1..n : l[i] = k[i])
      BY <2>5
    <3> QED BY <3>4, <3>5, <3>6 DEF Before
  <2> QED BY <1>1, <2>6, <2>7, <2>8, <2>9, <2>10
<1> QED BY <1>2, <1>3, <1>4

LEMMA KeyOrder ==
  /\ \A k \in Key : ~Before(k, k)
  /\ \A k, l, m \in Key : Before(k, l) /\ Before(l, m) => Before(k, m)
  /\ \A k, l \in Key : Before(k, l) \/ k = l \/ Before(l, k)
BY BeforeIsOrder, KeyAssumption

(***************************************************************************)
(* How often a key is in a list.                                           *)
(***************************************************************************)

Where(s, k) == {j \in DOMAIN s : s[j].key = k}
Count(s, k) == Cardinality(Where(s, k))
Bit(b)      == IF b THEN 1 ELSE 0

LEMMA Interval == \A n \in Nat : IsFiniteSet(1..n) /\ Cardinality(1..n) = n
BY FS_Interval

LEMMA ListOf ==
  ASSUME NEW s \in Seq(Node)
  PROVE  /\ Len(s) \in Nat /\ DOMAIN s = 1..Len(s) /\ (s = <<>> <=> Len(s) = 0)
         /\ \A i \in 1..Len(s) : s[i] \in Node /\ s[i].key \in Key
<1>1. Len(s) \in Nat /\ s \in [1..Len(s) -> Node] /\ DOMAIN s = 1..Len(s)
  BY LenProperties
<1>2. \A n \in Node : n.key \in Key
  BY DEF Node
<1>3. s = <<>> <=> Len(s) = 0
  BY <1>1, EmptySeq
<1> QED BY <1>1, <1>2, <1>3

LEMMA CountType ==
  ASSUME NEW s \in Seq(Node), NEW k
  PROVE  IsFiniteSet(Where(s, k)) /\ Count(s, k) \in Nat
<1>1. Where(s, k) \subseteq 1..Len(s)
  BY ListOf DEF Where
<1>2. IsFiniteSet(1..Len(s))
  BY ListOf, FS_Interval
<1> QED BY <1>1, <1>2, FS_Subset, FS_CardinalityType DEF Count

LEMMA CountEmpty == \A k : Count(<<>>, k) = 0
<1>1. \A k : Where(<<>>, k) = {}
  BY DEF Where
<1> QED BY <1>1, FS_EmptySet DEF Count

LEMMA CountTail ==
  ASSUME NEW s \in Seq(Node), s # <<>>, NEW k
  PROVE  Count(s, k) = Count(Tail(s), k) + Bit(s[1].key = k)
<1> DEFINE S == Where(Tail(s), k)
           T == {j \in 2..Len(s) : s[j].key = k}
           f == [j \in S |-> j + 1]
<1>1. Tail(s) \in Seq(Node) /\ Len(Tail(s)) = Len(s) - 1 /\ Len(s) \in Nat \ {0}
  BY HeadTailProperties
<1>2. \A i \in 1..Len(Tail(s)) : Tail(s)[i] = s[i + 1]
  BY HeadTailProperties
<1>3. f \in Bijection(S, T)
  <2>1. \A j \in S : j \in 1..Len(Tail(s)) /\ Tail(s)[j].key = k
    BY <1>1 DEF Where
  <2>2. f \in [S -> T]
    BY <1>1, <1>2, <2>1
  <2>3. \A i, j \in S : f[i] = f[j] => i = j
    BY <1>1, <2>1
  <2>4. ASSUME NEW j \in T PROVE \E i \in S : f[i] = j
    <3>1. j - 1 \in S
      BY <1>1, <1>2 DEF Where
    <3> QED BY <3>1
  <2> QED BY <2>2, <2>3, <2>4, Fun_IsBij
<1>4. IsFiniteSet(T) /\ Cardinality(T) = Count(Tail(s), k) /\ Cardinality(T) \in Nat
  <2>1. ExistsBijection(S, T)
    BY <1>3 DEF ExistsBijection
  <2>2. IsFiniteSet(S) /\ Cardinality(S) = Count(Tail(s), k) /\ Count(Tail(s), k) \in Nat
    BY <1>1, CountType DEF Count
  <2> HIDE DEF S, T
  <2> QED BY <2>1, <2>2, FS_Bijection
<1>5. Where(s, k) = IF s[1].key = k THEN T \union {1} ELSE T
  BY <1>1 DEF Where
<1>6. 1 \notin T
  BY <1>1
<1> HIDE DEF T
<1>7. Cardinality(T \union {1}) = Cardinality(T) + 1
  BY <1>4, <1>6, FS_AddElement
<1> QED BY <1>4, <1>5, <1>7 DEF Count, Bit

LEMMA CountCons ==
  ASSUME NEW s \in Seq(Node), NEW n \in Node, NEW k
  PROVE  /\ <<n>> \o s \in Seq(Node) /\ Len(<<n>> \o s) = Len(s) + 1
         /\ \A j \in 1..Len(s) + 1 : (<<n>> \o s)[j] = IF j = 1 THEN n ELSE s[j - 1]
         /\ Count(<<n>> \o s, k) = Count(s, k) + Bit(n.key = k)
<1> DEFINE t == <<n>> \o s
<1>1. <<n>> \in Seq(Node) /\ Len(<<n>>) = 1 /\ <<n>>[1] = n
  OBVIOUS
<1>2. t \in Seq(Node) /\ Len(t) = Len(s) + 1
  BY <1>1, ConcatProperties
<1>3. /\ t[1] = n /\ \A i \in 1..Len(s) : t[i + 1] = s[i]
      /\ \A i \in 1..Len(s) + 1 : t[i] = IF i = 1 THEN n ELSE s[i - 1]
  <2>1. Len(s) \in Nat
    OBVIOUS
  <2>2. \A i \in 1..Len(s) + 1 : t[i] = IF i <= 1 THEN n ELSE s[i - 1]
    BY <1>1, <2>1, ConcatProperties
  <2> QED BY <2>1, <2>2
<1> HIDE DEF t
<1>4. t # <<>>
  BY <1>2
<1>5. Tail(t) = s
  <2>1. Tail(t) \in Seq(Node) /\ Len(Tail(t)) = Len(s)
    BY <1>2, <1>4, HeadTailProperties
  <2>2. \A i \in 1..Len(Tail(t)) : Tail(t)[i] = s[i]
    BY <1>2, <1>3, <1>4, <2>1, HeadTailProperties
  <2> QED BY <2>1, <2>2, SeqEqual
<1>6. Count(t, k) = Count(s, k) + Bit(n.key = k)
  <2>1. Count(t, k) = Count(Tail(t), k) + Bit(t[1].key = k)
    BY <1>2, <1>4, CountTail
  <2> QED BY <1>3, <1>5, <2>1
<1> QED BY <1>2, <1>3, <1>6 DEF t

(***************************************************************************)
(* Sorting: order and number of the keys.                                  *)
(***************************************************************************)

Upper(s, k) == Cardinality(UpTo(s, Len(s), k))
Lower(s, k) == Cardinality(Under(s, Len(s), k))

\* The keys up to k are those before k and those equal to k.
LEMMA Ranks ==
  ASSUME NEW s \in Seq(Node), NEW k \in Key
  PROVE  /\ IsFiniteSet(UpTo(s, Len(s), k)) /\ IsFiniteSet(Under(s, Len(s), k))
         /\ Lower(s, k) \in Nat /\ Upper(s, k) \in 0..Len(s)
         /\ Upper(s, k) = Lower(s, k) + Count(s, k)
<1>1. (\A i \in 1..Len(s) : s[i].key \in Key) /\ DOMAIN s = 1..Len(s) /\ Len(s) \in Nat
  BY ListOf
<1>2. /\ UpTo(s, Len(s), k) = Under(s, Len(s), k) \union Where(s, k)
      /\ Under(s, Len(s), k) \intersect Where(s, k) = {}
  BY <1>1, KeyOrder DEF UpTo, Under, Where
<1>3. IsFiniteSet(1..Len(s)) /\ Cardinality(1..Len(s)) = Len(s)
  BY <1>1, FS_Interval
<1>4. UpTo(s, Len(s), k) \subseteq 1..Len(s) /\ Under(s, Len(s), k) \subseteq 1..Len(s)
  BY DEF UpTo, Under
<1>5. /\ IsFiniteSet(UpTo(s, Len(s), k)) /\ IsFiniteSet(Under(s, Len(s), k))
      /\ Upper(s, k) <= Len(s)
  BY <1>3, <1>4, FS_Subset DEF Upper
<1>6. Upper(s, k) \in Nat /\ Lower(s, k) \in Nat
  BY <1>5, FS_CardinalityType DEF Upper, Lower
<1>7. IsFiniteSet(Where(s, k)) /\ Count(s, k) \in Nat
  BY CountType
<1>8. Upper(s, k) = Lower(s, k) + Count(s, k) - Cardinality({})
  BY <1>2, <1>5, <1>7, FS_Union DEF Upper, Lower, Count
<1> QED BY <1>1, <1>5, <1>6, <1>7, <1>8, FS_EmptySet

\* Of two keys, what is up to the first is before the second.
LEMMA RankOrder ==
  ASSUME NEW s \in Seq(Node), NEW k \in Key, NEW l \in Key, Before(k, l)
  PROVE  Upper(s, k) <= Lower(s, l)
<1>1. \A i \in 1..Len(s) : s[i].key \in Key
  BY ListOf
<1>2. UpTo(s, Len(s), k) \subseteq Under(s, Len(s), l)
  BY <1>1, KeyOrder DEF UpTo, Under
<1> QED BY <1>2, Ranks, FS_Subset DEF Upper, Lower

\* Place j is one of the places of k in the sorted list.
PlaceOf(s, j, k) == j \in (Lower(s, k) + 1)..Upper(s, k)

LEMMA OnePlace ==
  ASSUME NEW s \in Seq(Node), NEW j \in Nat, NEW k \in Key, NEW l \in Key,
         PlaceOf(s, j, k), PlaceOf(s, j, l)
  PROVE  k = l
<1>1. /\ Lower(s, k) \in Nat /\ Upper(s, k) \in Nat
      /\ Lower(s, l) \in Nat /\ Upper(s, l) \in Nat
  BY Ranks
<1>2. ~Before(k, l)
  BY <1>1, RankOrder DEF PlaceOf
<1>3. ~Before(l, k)
  BY <1>1, RankOrder DEF PlaceOf
<1> QED BY <1>2, <1>3, KeyOrder

LEMMA LeastAt ==
  ASSUME NEW I, I # {}, NEW f \in [I -> Nat]
  PROVE  \E i \in I : \A h \in I : f[i] <= f[h]
<1> DEFINE S == {f[i] : i \in I}
<1>1. S \subseteq Nat /\ S # {} /\ \A h \in I : f[h] \in S
  OBVIOUS
<1>2. Min(S) \in S /\ \A x \in S : Min(S) <= x
  <2> HIDE DEF S
  <2> QED BY <1>1, MinIs
<1>3. PICK i \in I : Min(S) = f[i]
  BY <1>2
<1> HIDE DEF S
<1> QED BY <1>1, <1>2, <1>3

\* The greatest of the keys of a list: all are up to it.
LEMMA Greatest ==
  ASSUME NEW s \in Seq(Node), NEW I, I \subseteq 1..Len(s), I # {}
  PROVE  \E i \in I : \A h \in I : NotAfter(s[h].key, s[i].key)
<1>1. \A i \in I : s[i].key \in Key
  BY ListOf
<1>2. ASSUME NEW i \in I PROVE Len(s) - Upper(s, s[i].key) \in Nat
  <2>1. Upper(s, s[i].key) \in 0..Len(s) /\ Len(s) \in Nat
    BY <1>1, Ranks, ListOf
  <2> QED BY <2>1
<1>3. PICK f : f = [i \in I |-> Len(s) - Upper(s, s[i].key)]
  OBVIOUS
<1>4. PICK i \in I : \A h \in I : f[i] <= f[h]
  BY <1>2, <1>3, LeastAt
<1>5. ASSUME NEW h \in I, Before(s[i].key, s[h].key) PROVE FALSE
  <2>1. PICK k, l : k = s[i].key /\ l = s[h].key
    OBVIOUS
  <2>2. k \in Key /\ l \in Key
    BY <1>1, <2>1
  <2>3. Upper(s, k) <= Lower(s, l)
    BY <1>5, <2>1, <2>2, RankOrder
  <2>4. Upper(s, l) = Lower(s, l) + Count(s, l) /\ Lower(s, l) \in Nat /\ Upper(s, k) \in Nat
    BY <2>2, Ranks
  <2>5. Count(s, l) \in Nat /\ Count(s, l) # 0
    <3>1. h \in Where(s, l)
      BY <2>1, ListOf DEF Where
    <3> QED BY <3>1, CountType, FS_EmptySet DEF Count
  <2>6. Len(s) - Upper(s, k) <= Len(s) - Upper(s, l) /\ Len(s) \in Nat
    BY <1>3, <1>4, <1>5, <2>1, ListOf
  <2>7. Upper(s, l) \in Nat
    BY <2>2, Ranks
  <2> QED BY <2>3, <2>4, <2>5, <2>6, <2>7
<1> QED BY <1>5 DEF NotAfter

\* Every place of the sorted list has a key of the list.
LEMMA PlaceExists ==
  ASSUME NEW s \in Seq(Node), NEW j \in 1..Len(s)
  PROVE  \E i \in 1..Len(s) : PlaceOf(s, j, s[i].key)
<1>1. (\A i \in 1..Len(s) : s[i].key \in Key) /\ Len(s) \in Nat /\ j \in Nat
  BY ListOf
<1>0. PICK I : I = {i \in 1..Len(s) : Upper(s, s[i].key) >= j}
  OBVIOUS
<1>2. \A i \in 1..Len(s) : Upper(s, s[i].key) \in Nat /\ Lower(s, s[i].key) \in Nat
  BY <1>1, Ranks
<1>3. I # {}
  <2>1. 1..Len(s) # {}
    OBVIOUS
  <2>2. PICK i \in 1..Len(s) : \A h \in 1..Len(s) : NotAfter(s[h].key, s[i].key)
    BY <2>1, Greatest
  <2>3. UpTo(s, Len(s), s[i].key) = 1..Len(s)
    BY <2>2 DEF UpTo, NotAfter
  <2>4. Cardinality(1..Len(s)) = Len(s)
    BY <1>1, Interval
  <2>5. Upper(s, s[i].key) = Len(s)
    BY <2>3, <2>4 DEF Upper
  <2> QED BY <1>0, <1>1, <2>5
<1>4. PICK f : f = [i \in I |-> Upper(s, s[i].key)]
  OBVIOUS
<1>5. PICK i \in I : \A h \in I : f[i] <= f[h]
  <2>1. f \in [I -> Nat]
    BY <1>0, <1>2, <1>4
  <2> QED BY <1>3, <2>1, LeastAt
<1>6. PICK k : k = s[i].key
  OBVIOUS
<1>7. i \in 1..Len(s) /\ k \in Key /\ Upper(s, k) >= j /\ Upper(s, k) \in Nat
  BY <1>0, <1>1, <1>2, <1>5, <1>6
<1>8. Lower(s, k) < j
  <2> DEFINE U == Under(s, Len(s), k)
  <2>1. CASE U = {}
    BY <1>1, <2>1, FS_EmptySet DEF Lower
  <2>2. CASE U # {}
    <3>1. U \subseteq 1..Len(s)
      BY DEF Under
    <3>2. PICK h \in U : \A g \in U : NotAfter(s[g].key, s[h].key)
      <4> HIDE DEF U
      <4> QED BY <2>2, <3>1, Greatest
    <3>3. PICK l : l = s[h].key
      OBVIOUS
    <3>4. h \in 1..Len(s) /\ l \in Key /\ Before(l, k)
      BY <1>1, <3>1, <3>2, <3>3 DEF Under
    <3>5. U \subseteq UpTo(s, Len(s), l)
      BY <3>1, <3>2, <3>3 DEF UpTo, NotAfter
    <3>6. Lower(s, k) <= Upper(s, l)
      BY <3>4, <3>5, Ranks, FS_Subset DEF Lower, Upper
    <3>7. Upper(s, l) < j
      <4>1. Upper(s, l) <= Lower(s, k) /\ Lower(s, k) \in Nat /\ Upper(s, l) \in Nat
        BY <1>7, <3>4, RankOrder, Ranks
      <4>2. Upper(s, k) = Lower(s, k) + Count(s, k) /\ Count(s, k) \in Nat
        BY <1>7, Ranks, CountType
      <4>3. Count(s, k) # 0
        <5>1. i \in Where(s, k)
          BY <1>6, <1>7, ListOf DEF Where
        <5> QED BY <5>1, CountType, FS_EmptySet DEF Count
      <4>4. Upper(s, l) < Upper(s, k)
        BY <4>1, <4>2, <4>3
      <4>5. h \in I => Upper(s, k) <= Upper(s, l)
        BY <1>4, <1>5, <1>6, <3>3
      <4>6. h \notin I
        BY <1>7, <4>1, <4>4, <4>5
      <4> QED BY <1>0, <1>1, <3>3, <3>4, <4>1, <4>6
    <3>8. Lower(s, k) \in Nat /\ Upper(s, l) \in Nat
      BY <1>7, <3>4, Ranks
    <3> QED BY <1>1, <3>6, <3>7, <3>8
  <2> QED BY <2>1, <2>2
<1>9. Lower(s, k) \in Nat
  BY <1>7, Ranks
<1> QED BY <1>1, <1>6, <1>7, <1>8, <1>9 DEF PlaceOf

LEMMA SmallestIs ==
  ASSUME NEW s \in Seq(Node), NEW j \in 1..Len(s)
  PROVE  /\ Smallest(s, Len(s), j) \in Key
         /\ PlaceOf(s, j, Smallest(s, Len(s), j))
<1> DEFINE K == {s[i].key : i \in 1..Len(s)}
<1>1. K \subseteq Key
  BY ListOf
<1>2. \E k \in K : PlaceOf(s, j, k)
  BY PlaceExists
<1>3. Smallest(s, Len(s), j) = CHOOSE k \in K : PlaceOf(s, j, k)
  BY DEF Smallest, PlaceOf, Lower, Upper
<1> HIDE DEF K
<1> QED BY <1>1, <1>2, <1>3

LEMMA SortedIs ==
  ASSUME NEW s \in Seq(Node), s # <<>>
  PROVE  LET t == Sorted(s, Len(s))
         IN  /\ t \in Seq(Node) /\ Len(t) = Len(s)
             /\ \A i, j \in DOMAIN t : i < j => NotAfter(t[i].key, t[j].key)
             /\ \A k \in Key : Count(t, k) = Count(s, k)
             /\ \A j \in DOMAIN t : \E i \in DOMAIN s : s[i].key = t[j].key
<1> DEFINE t == Sorted(s, Len(s))
<1>1. Len(s) \in Nat /\ Head(s).value \in Value
  <2>1. Head(s) \in Node
    BY HeadTailProperties
  <2> QED BY <2>1, ListOf DEF Node
<1>2. t \in Seq(Node) /\ Len(t) = Len(s) /\ DOMAIN t = 1..Len(s)
  <2>1. t \in [1..Len(s) -> Node]
    BY <1>1, SmallestIs DEF Sorted, Node
  <2> QED BY <1>1, <2>1, SeqDef
<1>3. \A j \in 1..Len(s) : t[j].key = Smallest(s, Len(s), j)
  BY DEF Sorted
<1> HIDE DEF t
<1>4. ASSUME NEW i \in 1..Len(s), NEW j \in 1..Len(s), i < j
      PROVE  NotAfter(t[i].key, t[j].key)
  <2>1. PICK k, l : k = t[i].key /\ l = t[j].key
    OBVIOUS
  <2>2. k \in Key /\ l \in Key /\ PlaceOf(s, i, k) /\ PlaceOf(s, j, l)
    BY <1>3, <2>1, SmallestIs
  <2>3. Lower(s, k) \in Nat /\ Upper(s, l) \in Nat
    BY <2>2, Ranks
  <2>4. ASSUME Before(l, k) PROVE FALSE
    <3>1. Upper(s, l) <= Lower(s, k)
      BY <2>2, <2>4, RankOrder
    <3> QED BY <1>4, <2>2, <2>3, <3>1 DEF PlaceOf
  <2> QED BY <2>1, <2>4 DEF NotAfter
<1>5. ASSUME NEW k \in Key PROVE Count(t, k) = Count(s, k)
  <2>1. /\ Lower(s, k) \in Nat /\ Upper(s, k) \in 0..Len(s)
        /\ Upper(s, k) = Lower(s, k) + Count(s, k) /\ Count(s, k) \in Nat
    BY Ranks, CountType
  <2>2. \A j \in 1..Len(s) : t[j].key = k <=> PlaceOf(s, j, k)
    BY <1>1, <1>3, SmallestIs, OnePlace
  <2>3. Where(t, k) = (Lower(s, k) + 1)..Upper(s, k)
    BY <1>1, <1>2, <2>1, <2>2 DEF Where, PlaceOf
  <2>4. Lower(s, k) + 1 \in Int /\ Upper(s, k) \in Int
    BY <2>1
  <2>5. Count(t, k) = IF Lower(s, k) + 1 > Upper(s, k) THEN 0
                      ELSE Upper(s, k) - (Lower(s, k) + 1) + 1
    BY <2>3, <2>4, FS_Interval DEF Count
  <2> QED BY <2>1, <2>5
<1>6. ASSUME NEW j \in 1..Len(s) PROVE \E i \in DOMAIN s : s[i].key = t[j].key
  <2>1. t[j].key \in Key
    BY <1>3, SmallestIs
  <2>2. j \in Where(t, t[j].key)
    BY <1>2 DEF Where
  <2>3. Count(s, t[j].key) # 0
    <3>1. Count(t, t[j].key) # 0
      BY <1>2, <2>2, CountType, FS_EmptySet DEF Count
    <3> QED BY <1>5, <2>1, <3>1
  <2>4. Where(s, t[j].key) # {}
    BY <2>3, FS_EmptySet DEF Count
  <2> QED BY <2>4 DEF Where
<1> QED BY <1>2, <1>4, <1>5, <1>6 DEF t

(***************************************************************************)
(* What a step must do to keep the invariant, but for the number of        *)
(* emitted keys: a step of a mapper, and a step of a reducer.              *)
(***************************************************************************)

LEMMA Parts == Safe => /\ TypeOK /\ PhaseInv /\ IndexInv /\ FilesPrivate /\ PartitionsPrivate
                       /\ BucketInv /\ ReduceInv
BY DEF Safe, WorkPrivate

LEMMA KeyPart == Safe => \A k \in Key : Part(k) \in Partition
BY Parts, PartIn DEF TypeOK

LEMMA MapFrame ==
  ASSUME Safe, TypeOK', NEW t \in Mapper, main = "mapping", main' \in {"mapping", "aborted"},
         UNCHANGED <<args, redVars, sortAt>>,
         \A u \in Thread \ {t} : pc'[u] = pc[u] /\ index'[u] = index[u],
         \A u \in Mapper \ {t} : line'[u] = line[u],
         files' >= files, pc'[t] \in MapPlace \union {"exited"},
         Mapping(t)' => /\ index'[t] \in 1..files'
                        /\ \A u \in Mapper \ {t} : Mapping(u) => index[u] # index'[t],
         pc'[t] = "map_line" => index'[t] \in File /\ line'[t] <= Len(content[index'[t]]),
         pc'[t] = "exited" => files' >= TotalFiles,
         BucketInv'
  PROVE  Safe'
<1>1. PhaseInv /\ IndexInv /\ FilesPrivate /\ TypeOK
  BY Parts
<1>2. /\ \A u \in Reducer : u # t /\ u \in Thread /\ pc[u] = "uncreated" /\ pc'[u] = "uncreated"
      /\ part_num' = 0 /\ out' = <<>> /\ sortAt' = 0 /\ Early'
      /\ client' = client /\ content' = content
  BY <1>1, Numbers DEF PhaseInv, Early, Thread, args, redVars
<1>3. PhaseInv'
  <2>1. \A u \in Mapper : pc'[u] \in MapPlace \union {"exited"}
    BY <1>1 DEF PhaseInv, Thread
  <2> QED BY <1>2, <2>1 DEF PhaseInv, Early
<1>4. IndexInv'
  <2>1. files \in Nat /\ files' \in Nat /\ TotalFiles \in Nat
    BY <1>1, Numbers DEF TypeOK
  <2>2. ASSUME NEW u \in Mapper \ {t}
        PROVE  /\ Mapping(u)' => index'[u] \in 1..files'
               /\ pc'[u] = "map_line" => /\ index'[u] \in File
                                         /\ line'[u] <= Len(content'[index'[u]])
               /\ pc'[u] = "exited" => files' >= TotalFiles
    BY <1>1, <1>2, <2>1 DEF IndexInv, Mapping, Thread
  <2>3. \A u \in Reducer : ~Reducing(u)' /\ pc'[u] # "get_next" /\ pc'[u] # "exited"
    BY <1>2 DEF Reducing
  <2> QED BY <1>2, <2>2, <2>3 DEF IndexInv
<1>5. FilesPrivate'
  <2>1. \A u \in Mapper \ {t} : (Mapping(u)' <=> Mapping(u)) /\ index'[u] = index[u]
    BY DEF Mapping, Thread
  <2> QED BY <1>1, <2>1 DEF FilesPrivate
<1>6. PartitionsPrivate'
  BY <1>2 DEF PartitionsPrivate, Reducing
<1>7. ReduceInv'
  <2>1. \A u \in Reducer : pc'[u] # "get_next"
    BY <1>2
  <2>2. DOMAIN out' = {}
    BY <1>2
  <2>3. \A p \in Partition : ~(p < part_num')
    BY <1>2, Numbers
  <2> QED BY <2>1, <2>2, <2>3 DEF ReduceInv, AtKey, Finished
<1> QED BY <1>3, <1>4, <1>5, <1>6, <1>7 DEF Safe, WorkPrivate

LEMMA RedFrame ==
  ASSUME Safe, TypeOK', NEW t \in Reducer, main = "reducing",
         UNCHANGED <<args, mapVars, main, sortAt>>,
         \A u \in Thread \ {t} : pc'[u] = pc[u] /\ index'[u] = index[u],
         part_num' >= part_num, pc'[t] \in RedPlace \union {"exited"},
         Reducing(t)' => /\ index'[t] < part_num'
                         /\ \A u \in Reducer \ {t} : Reducing(u) => index[u] # index'[t],
         pc'[t] = "get_next" => index'[t] \in Partition,
         pc'[t] = "exited" => part_num' >= NumPart,
         BucketInv', ReduceInv'
  PROVE  Safe'
<1>1. PhaseInv /\ IndexInv /\ FilesPrivate /\ PartitionsPrivate /\ TypeOK
  BY Parts
<1>2. /\ \A u \in Mapper : u # t /\ u \in Thread /\ pc[u] = "exited" /\ pc'[u] = "exited"
      /\ client' = client /\ content' = content /\ files' = files /\ ~Early /\ ~Early'
      /\ main' = "reducing" /\ sortAt' = NumPart
  BY <1>1, Numbers DEF PhaseInv, Early, Thread, args, mapVars
<1>3. PhaseInv'
  <2>1. \A u \in Reducer : pc'[u] \in RedPlace \union {"exited"}
    BY <1>1, <1>2 DEF PhaseInv, Thread
  <2> QED BY <1>2, <2>1 DEF PhaseInv, Early, RedPlace
<1>4. IndexInv'
  <2>1. part_num \in Nat /\ part_num' \in Nat /\ NumPart \in Nat /\ index \in [Thread -> Nat]
    BY <1>1, Numbers DEF TypeOK
  <2>2. ASSUME NEW u \in Reducer \ {t}
        PROVE  /\ Reducing(u)' => index'[u] < part_num'
               /\ pc'[u] = "get_next" => index'[u] \in Partition
               /\ pc'[u] = "exited" => part_num' >= NumPart
    BY <1>1, <2>1 DEF IndexInv, Reducing, Thread
  <2>3. \A u \in Mapper : ~Mapping(u)' /\ pc'[u] # "map_line" /\ files' >= TotalFiles
    BY <1>1, <1>2 DEF Mapping, IndexInv
  <2> QED BY <2>2, <2>3 DEF IndexInv
<1>5. PartitionsPrivate'
  <2>1. \A u \in Reducer \ {t} : (Reducing(u)' <=> Reducing(u)) /\ index'[u] = index[u]
    BY DEF Reducing, Thread
  <2> QED BY <1>1, <2>1 DEF PartitionsPrivate
<1>6. FilesPrivate'
  BY <1>2 DEF FilesPrivate, Mapping
<1> QED BY <1>3, <1>4, <1>5, <1>6 DEF Safe, WorkPrivate

\* Where the lists do not change.
LEMMA SameBuckets ==
  ASSUME BucketInv, UNCHANGED <<client, hashtable, size, sortAt>>, Early' => Early
  PROVE  BucketInv'
BY DEF BucketInv, Part

\* Where lists and output do not change, nor who is in Reduce() with which key.
LEMMA SameCalls ==
  ASSUME ReduceInv, UNCHANGED <<client, hashtable, key, count, out>>,
         \A u \in Reducer : /\ pc'[u] = "get_next" <=> pc[u] = "get_next"
                            /\ pc[u] = "get_next" => index'[u] = index[u]
  PROVE  /\ \A t \in Reducer : AtKey(t)'
         /\ \A i \in DOMAIN out', p \in Partition : Above(i, p)'
         /\ \A i, j \in DOMAIN out' : InOrder(i, j)'
<1>1. ASSUME NEW t \in Reducer PROVE AtKey(t)'
  BY DEF ReduceInv, AtKey, Part
<1>2. ASSUME NEW i \in DOMAIN out, NEW p \in Partition PROVE Above(i, p)'
  BY DEF ReduceInv, Above, Part
<1>3. ASSUME NEW i \in DOMAIN out, NEW j \in DOMAIN out PROVE InOrder(i, j)'
  BY DEF ReduceInv, InOrder, Part
<1> QED BY <1>1, <1>2, <1>3

LEMMA SameReduce ==
  ASSUME ReduceInv, UNCHANGED <<client, hashtable, index, key, count, out, part_num>>,
         \A u \in Reducer : /\ pc'[u] = "get_next" <=> pc[u] = "get_next"
                            /\ Reducing(u)' <=> Reducing(u)
  PROVE  ReduceInv'
<1>1. ASSUME NEW p \in Partition PROVE Finished(p)'
  BY DEF ReduceInv, Finished
<1> QED BY <1>1, SameCalls DEF ReduceInv

(***************************************************************************)
(* The mappers.                                                            *)
(***************************************************************************)

LEMMA MapTestSafe ==
  ASSUME Safe, NEW t \in Mapper, MapTest(t)
  PROVE  Safe'
<1>1. PhaseInv /\ TypeOK /\ BucketInv
  BY Parts
<1>2. main = "mapping"
  BY <1>1 DEF MapTest, PhaseInv, MapPlace
<1>3. /\ UNCHANGED <<args, redVars, hashtable, size, main, sortAt, index, files, line>>
      /\ \/ pc' = [pc EXCEPT ![t] = "map_take"]
         \/ pc' = [pc EXCEPT ![t] = "exited"] /\ files >= TotalFiles
  <2>1. files \in Nat /\ TotalFiles \in Nat
    BY <1>1, Numbers DEF TypeOK
  <2>2. CASE files < TotalFiles
    BY <2>2 DEF MapTest, Goto, mapVars
  <2>3. CASE ~(files < TotalFiles)
    BY <2>1, <2>3 DEF MapTest, Goto, mapVars
  <2> QED BY <2>2, <2>3
<1>4. TypeOK'
  BY <1>1, <1>3 DEF TypeOK, args, redVars, Place, Part
<1>5. BucketInv'
  BY <1>1, <1>3, SameBuckets DEF args, Early
<1>6. (\A u \in Thread \ {t} : pc'[u] = pc[u]) /\ pc'[t] \in {"map_take", "exited"}
  BY <1>1, <1>3 DEF TypeOK, Thread
<1>7. ~Mapping(t)' /\ (pc'[t] = "exited" => files >= TotalFiles)
  BY <1>1, <1>3 DEF Mapping, TypeOK, Thread
<1>8. files \in Nat
  BY <1>1 DEF TypeOK
<1> QED BY <1>2, <1>3, <1>4, <1>5, <1>6, <1>7, <1>8, MapFrame DEF MapPlace

LEMMA MapTakeSafe ==
  ASSUME Safe, NEW t \in Mapper, MapTake(t)
  PROVE  Safe'
<1>1. PhaseInv /\ TypeOK /\ BucketInv /\ IndexInv
  BY Parts
<1>2. main = "mapping"
  BY <1>1 DEF MapTake, PhaseInv, MapPlace
<1>3. /\ UNCHANGED <<args, redVars, hashtable, size, main, sortAt, line>>
      /\ files' = files + 1 /\ index' = [index EXCEPT ![t] = files + 1]
      /\ pc' = [pc EXCEPT ![t] = "map_open"]
  BY DEF MapTake, Goto
<1>4. TypeOK'
  <2>1. pc' \in [Thread -> Place]
    BY <1>1, <1>3 DEF TypeOK, Place
  <2>2. files \in Nat /\ index \in [Thread -> Nat]
    BY <1>1 DEF TypeOK
  <2>3. files' \in Nat
    BY <1>3, <2>2
  <2>4. index' \in [Thread -> Nat]
    BY <1>3, <2>2, <2>3
  <2> QED BY <1>1, <1>3, <2>1, <2>3, <2>4 DEF TypeOK, args, redVars
<1>5. BucketInv'
  BY <1>1, <1>3, SameBuckets DEF args, Early
<1>6. /\ \A u \in Thread \ {t} : pc'[u] = pc[u] /\ index'[u] = index[u]
      /\ pc'[t] = "map_open" /\ index'[t] = files + 1 /\ files \in Nat
  BY <1>1, <1>3 DEF TypeOK, Thread
<1>7. \A u \in Mapper \ {t} : Mapping(u) => index[u] # index'[t]
  BY <1>1, <1>6 DEF IndexInv
<1> QED BY <1>2, <1>3, <1>4, <1>5, <1>6, <1>7, MapFrame DEF MapPlace

LEMMA MapOpenSafe ==
  ASSUME Safe, NEW t \in Mapper, MapOpen(t)
  PROVE  Safe'
<1>1. PhaseInv /\ TypeOK /\ BucketInv /\ IndexInv /\ FilesPrivate
  BY Parts
<1>2. main = "mapping" /\ Mapping(t)
  BY <1>1 DEF MapOpen, PhaseInv, MapPlace, Mapping
<1>3. /\ UNCHANGED <<args, redVars, hashtable, size, sortAt, files, index>>
      /\ \/ /\ index[t] \in File /\ main' = main /\ line' = [line EXCEPT ![t] = 0]
            /\ pc' = [pc EXCEPT ![t] = "map_line"]
         \/ main' = "aborted" /\ UNCHANGED <<line, pc>>
  BY DEF MapOpen, Goto
<1>4. TypeOK'
  <2>1. pc' \in [Thread -> Place]
    BY <1>1, <1>3 DEF TypeOK, Place
  <2>2. line' \in [Mapper -> Nat] /\ main' \in {"mapping", "aborted"}
    <3>1. line \in [Mapper -> Nat]
      BY <1>1 DEF TypeOK
    <3> QED BY <1>2, <1>3, <3>1
  <2> QED BY <1>1, <1>3, <2>1, <2>2 DEF TypeOK, args, redVars
<1>5. BucketInv'
  BY <1>1, <1>2, <1>3, SameBuckets DEF args, Early
<1>6. /\ \A u \in Thread \ {t} : pc'[u] = pc[u]
      /\ \A u \in Mapper \ {t} : line'[u] = line[u]
      /\ \/ pc'[t] = "map_line" /\ index[t] \in File /\ line'[t] = 0
         \/ pc'[t] = "map_open"
  BY <1>1, <1>3 DEF TypeOK, Thread, MapOpen
<1>7. \A u \in Mapper \ {t} : Mapping(u) => index[u] # index[t]
  BY <1>1, <1>2 DEF FilesPrivate
<1>8. index[t] \in 1..files /\ files \in Nat
  BY <1>1, <1>2 DEF IndexInv, TypeOK
<1>9. pc'[t] = "map_line" => index[t] \in File /\ line'[t] <= Len(content[index[t]])
  BY <1>1, <1>6, LenProperties DEF TypeOK
<1> QED BY <1>2, <1>3, <1>4, <1>5, <1>6, <1>7, <1>8, <1>9, MapFrame DEF MapPlace

LEMMA MapEndSafe ==
  ASSUME Safe, NEW t \in Mapper, MapEnd(t)
  PROVE  Safe'
<1>1. PhaseInv /\ TypeOK /\ BucketInv
  BY Parts
<1>2. main = "mapping"
  BY <1>1 DEF MapEnd, PhaseInv, MapPlace
<1>3. /\ UNCHANGED <<args, redVars, hashtable, size, main, sortAt, index, files, line>>
      /\ pc' = [pc EXCEPT ![t] = "map_test"]
  BY DEF MapEnd, Goto, mapVars
<1>4. TypeOK'
  BY <1>1, <1>3 DEF TypeOK, args, redVars, Place, Part
<1>5. BucketInv'
  BY <1>1, <1>3, SameBuckets DEF args, Early
<1>6. (\A u \in Thread \ {t} : pc'[u] = pc[u]) /\ pc'[t] = "map_test" /\ ~Mapping(t)'
  BY <1>1, <1>3 DEF TypeOK, Thread, Mapping
<1> QED BY <1>1, <1>2, <1>3, <1>4, <1>5, <1>6, MapFrame DEF MapPlace, TypeOK

\* Line j of file f, with pair n, is emitted by t to bucket p.
Emits(t, f, j, n, p) ==
  /\ main = "mapping" /\ pc[t] = "map_line" /\ f \in File /\ f <= files /\ f = index[t]
  /\ j = line[t] + 1 /\ j \in DOMAIN content[f] /\ n = content[f][j]
  /\ n \in Node /\ n.key \in Key /\ p = Part(n.key) /\ p \in Partition
  /\ hashtable' = [hashtable EXCEPT ![p] = <<n>> \o hashtable[p]]
  /\ hashtable[p] \in Seq(Node) /\ size' = [size EXCEPT ![p] = size[p] + 1]
  /\ line' = [line EXCEPT ![t] = j]
  /\ UNCHANGED <<args, files, redVars, main, sortAt, pc, index>>

LEMMA EmitIs ==
  ASSUME Safe, NEW t \in Mapper, Emit(t)
  PROVE  \E f, j, n, p : Emits(t, f, j, n, p)
<1>0. PICK f, j, n, p : f = index[t] /\ j = line[t] + 1 /\ n = content[f][j] /\ p = Part(n.key)
  OBVIOUS
<1>1. PhaseInv /\ TypeOK /\ IndexInv
  BY Parts
<1>2. main = "mapping" /\ pc[t] = "map_line" /\ f \in File /\ f <= files
  <2>1. pc[t] = "map_line" /\ main = "mapping"
    BY <1>1 DEF Emit, PhaseInv
  <2>2. f \in 1..files /\ f \in File
    BY <1>0, <1>1, <2>1 DEF IndexInv, Mapping
  <2>3. files \in Nat
    BY <1>1 DEF TypeOK
  <2> QED BY <2>1, <2>2, <2>3
<1>3. content[f] \in Seq(Node) /\ line[t] \in Nat /\ line[t] < Len(content[f])
  BY <1>0, <1>1, <1>2 DEF TypeOK, Emit
<1>4. j \in 1..Len(content[f]) /\ j \in DOMAIN content[f]
  BY <1>0, <1>3, ListOf
<1>5. n \in Node /\ n.key \in Key /\ p \in Partition
  BY <1>0, <1>3, <1>4, ListOf, KeyPart
<1>6. hashtable[p] \in Seq(Node)
  BY <1>1, <1>5 DEF TypeOK
<1> QED BY <1>0, <1>2, <1>4, <1>5, <1>6 DEF Emit, Emits

LEMMA EmitSafe ==
  ASSUME Safe, NEW t \in Mapper, Emit(t)
  PROVE  Safe'
<1>1. PhaseInv /\ TypeOK /\ BucketInv /\ IndexInv /\ FilesPrivate
  BY Parts
<1>2. PICK f, j, n, p : Emits(t, f, j, n, p)
  BY EmitIs
<1>3. PICK s : s = hashtable[p]
  OBVIOUS
<1>4. main = "mapping" /\ pc[t] = "map_line" /\ f \in File /\ f <= files /\ f = index[t]
  BY <1>2 DEF Emits
<1>5. j = line[t] + 1 /\ j \in DOMAIN content[f]
  BY <1>2 DEF Emits
<1>6. n \in Node /\ n.key \in Key /\ p = Part(n.key) /\ p \in Partition /\ s \in Seq(Node)
  BY <1>2, <1>3 DEF Emits
<1>7. UNCHANGED <<args, files, redVars, main, sortAt, pc, index>>
  BY <1>2 DEF Emits
<1>8. PICK e : e = <<n>> \o s
  OBVIOUS
<1>9. /\ e \in Seq(Node) /\ Len(e) = Len(s) + 1 /\ Len(s) \in Nat
      /\ \A i \in 1..Len(s) + 1 : e[i] = IF i = 1 THEN n ELSE s[i - 1]
  <2>1. /\ <<n>> \o s \in Seq(Node) /\ Len(<<n>> \o s) = Len(s) + 1
        /\ \A i \in 1..Len(s) + 1 : (<<n>> \o s)[i] = IF i = 1 THEN n ELSE s[i - 1]
    BY <1>6, CountCons
  <2>2. Len(s) \in Nat
    BY <1>6, ListOf
  <2> QED BY <1>8, <2>1, <2>2
<1>10. /\ hashtable' \in [Partition -> Seq(Node)] /\ hashtable'[p] = e
       /\ \A q \in Partition \ {p} : hashtable'[q] = hashtable[q]
  <2>1. hashtable \in [Partition -> Seq(Node)]
    BY <1>1 DEF TypeOK
  <2>2. hashtable' = [hashtable EXCEPT ![p] = e]
    BY <1>2, <1>3, <1>8 DEF Emits
  <2> QED BY <1>6, <1>9, <2>1, <2>2
<1>11. /\ size' \in [Partition -> Nat] /\ size'[p] = size[p] + 1
       /\ \A q \in Partition \ {p} : size'[q] = size[q]
  <2>1. size \in [Partition -> Nat]
    BY <1>1 DEF TypeOK
  <2>2. size' = [size EXCEPT ![p] = size[p] + 1]
    BY <1>2 DEF Emits
  <2> QED BY <1>6, <2>1, <2>2
<1>12. /\ line' \in [Mapper -> Nat] /\ line'[t] = j
       /\ \A u \in Mapper \ {t} : line'[u] = line[u]
  <2>1. line \in [Mapper -> Nat]
    BY <1>1 DEF TypeOK
  <2>2. j \in Nat
    BY <1>5, <2>1
  <2>3. line' = [line EXCEPT ![t] = j]
    BY <1>2 DEF Emits
  <2> QED BY <2>1, <2>2, <2>3
<1>13. TypeOK'
  BY <1>1, <1>7, <1>10, <1>11, <1>12 DEF TypeOK, args, redVars
<1>14. BucketInv'
  <2>1. sortAt' = 0 /\ client' = client /\ Early
    BY <1>1, <1>4, <1>7 DEF PhaseInv, Early, args
  <2>2. ASSUME NEW q \in Partition PROVE size'[q] = Len(hashtable'[q])
    <3>1. size[q] = Len(hashtable[q])
      BY <1>1, <2>1 DEF BucketInv
    <3> QED BY <1>3, <1>9, <1>10, <1>11, <3>1
  <2>3. ASSUME NEW q \in Partition, NEW i \in DOMAIN hashtable'[q]
        PROVE  Part(hashtable'[q][i].key) = q
    <3>1. CASE q # p
      BY <1>1, <1>10, <3>1 DEF BucketInv
    <3>2. CASE q = p
      <4>1. i \in 1..Len(s) + 1 /\ DOMAIN s = 1..Len(s) /\ hashtable'[q] = e
        BY <1>6, <1>9, <1>10, <3>2, ListOf
      <4>2. CASE i = 1
        <5>1. e[i] = n
          BY <1>9, <4>1, <4>2
        <5> QED BY <1>6, <3>2, <4>1, <5>1
      <4>3. CASE i # 1
        <5>1. i - 1 \in DOMAIN s /\ e[i] = s[i - 1]
          BY <1>9, <4>1, <4>3
        <5> QED BY <1>1, <1>3, <3>2, <4>1, <5>1 DEF BucketInv
      <4> QED BY <4>2, <4>3
    <3> QED BY <3>1, <3>2
  <2>4. \A k : Part(k)' = Part(k)
    BY <2>1 DEF Part
  <2>5. \A q \in Partition : ~(q < sortAt')
    BY <2>1, Numbers
  <2> QED BY <2>2, <2>3, <2>4, <2>5 DEF BucketInv
<1>15. content[f] \in Seq(Node) /\ j <= Len(content[f])
  <2>1. content[f] \in Seq(Node)
    BY <1>1, <1>4 DEF TypeOK
  <2>2. j \in 1..Len(content[f]) /\ Len(content[f]) \in Nat
    BY <1>5, <2>1, ListOf
  <2> QED BY <2>1, <2>2
<1>16. /\ index[t] \in 1..files /\ files \in Nat
       /\ \A u \in Mapper \ {t} : Mapping(u) => index[u] # index[t]
  <2>1. Mapping(t)
    BY <1>4 DEF Mapping
  <2> QED BY <1>1, <2>1 DEF TypeOK, IndexInv, FilesPrivate
<1>17. index'[t] \in File /\ line'[t] <= Len(content[index'[t]]) /\ files' >= files
  BY <1>4, <1>7, <1>12, <1>15, <1>16
<1> QED BY <1>4, <1>7, <1>12, <1>13, <1>14, <1>16, <1>17, MapFrame DEF MapPlace

(***************************************************************************)
(* MR_Run().                                                               *)
(***************************************************************************)

LEMMA JoinMappersSafe ==
  ASSUME Safe, JoinMappers
  PROVE  Safe'
<1>1. PhaseInv /\ TypeOK /\ BucketInv /\ IndexInv /\ FilesPrivate /\ PartitionsPrivate /\ ReduceInv
  BY Parts
<1>2. /\ main = "mapping" /\ main' = "sorting" /\ \A t \in Mapper : pc[t] = "exited"
      /\ UNCHANGED <<args, files, line, redVars, hashtable, size, sortAt, pc, index>>
  BY DEF JoinMappers, mapVars
<1>3. TypeOK'
  BY <1>1, <1>2 DEF TypeOK, args, redVars
<1>4. PhaseInv'
  BY <1>1, <1>2 DEF PhaseInv, Early, redVars
<1>5. IndexInv' /\ FilesPrivate' /\ PartitionsPrivate'
  BY <1>1, <1>2 DEF IndexInv, FilesPrivate, PartitionsPrivate, Mapping, Reducing, args, redVars
<1>6. BucketInv'
  BY <1>1, <1>2, SameBuckets DEF args, Early
<1>7. ReduceInv'
  BY <1>1, <1>2 DEF ReduceInv, AtKey, Above, InOrder, Finished, Reducing,
                    args, redVars, Part
<1> QED BY <1>3, <1>4, <1>5, <1>6, <1>7 DEF Safe, WorkPrivate

LEMMA JoinReducersSafe ==
  ASSUME Safe, JoinReducers
  PROVE  Safe'
<1>1. PhaseInv /\ TypeOK /\ BucketInv /\ IndexInv /\ FilesPrivate /\ PartitionsPrivate /\ ReduceInv
  BY Parts
<1>2. /\ main = "reducing" /\ main' = "returned" /\ \A t \in Reducer : pc[t] = "exited"
      /\ UNCHANGED <<args, files, line, redVars, hashtable, size, sortAt, pc, index>>
  BY DEF JoinReducers, mapVars
<1>3. TypeOK'
  BY <1>1, <1>2 DEF TypeOK, args, redVars
<1>4. PhaseInv'
  BY <1>1, <1>2 DEF PhaseInv, Early, redVars
<1>5. IndexInv' /\ FilesPrivate' /\ PartitionsPrivate'
  BY <1>1, <1>2 DEF IndexInv, FilesPrivate, PartitionsPrivate, Mapping, Reducing, args, redVars
<1>6. BucketInv'
  BY <1>1, <1>2, SameBuckets DEF args, Early
<1>7. ReduceInv'
  BY <1>1, <1>2 DEF ReduceInv, AtKey, Above, InOrder, Finished, Reducing,
                    args, redVars, Part
<1> QED BY <1>3, <1>4, <1>5, <1>6, <1>7 DEF Safe, WorkPrivate

LEMMA CreateReducersSafe ==
  ASSUME Safe, CreateReducers
  PROVE  Safe'
<1>1. PhaseInv /\ TypeOK /\ BucketInv /\ IndexInv
  BY Parts
<1>2. /\ main = "sorting" /\ main' = "reducing" /\ sortAt = NumPart
      /\ pc' = [t \in Thread |-> IF t \in Reducer THEN "red_test" ELSE pc[t]]
      /\ UNCHANGED <<args, files, line, redVars, hashtable, size, sortAt, index>>
  BY DEF CreateReducers, mapVars
<1>3. /\ \A t \in Mapper : pc'[t] = "exited" /\ pc[t] = "exited"
      /\ \A t \in Reducer : pc'[t] = "red_test"
      /\ part_num' = 0 /\ out' = <<>> /\ ~Early'
  BY <1>1, <1>2, Numbers DEF PhaseInv, Early, Thread, redVars
<1>4. TypeOK'
  <2>1. pc' \in [Thread -> Place]
    BY <1>1, <1>2 DEF TypeOK, Place
  <2> QED BY <1>1, <1>2, <2>1 DEF TypeOK, args, redVars
<1>5. PhaseInv'
  BY <1>2, <1>3 DEF PhaseInv, Early, RedPlace
<1>6. IndexInv' /\ FilesPrivate' /\ PartitionsPrivate'
  <2>1. \A t \in Mapper : files' >= TotalFiles
    BY <1>1, <1>2, <1>3 DEF IndexInv
  <2> QED BY <1>3, <2>1 DEF IndexInv, FilesPrivate, PartitionsPrivate, Mapping, Reducing
<1>7. BucketInv'
  BY <1>1, <1>2, <1>3, SameBuckets DEF args
<1>8. ReduceInv'
  <2>1. \A p \in Partition : ~(p < part_num')
    BY <1>3, Numbers
  <2>2. DOMAIN out' = {}
    BY <1>3
  <2> QED BY <1>3, <2>1, <2>2 DEF ReduceInv, AtKey, Finished
<1> QED BY <1>4, <1>5, <1>6, <1>7, <1>8 DEF Safe, WorkPrivate

\* The list of the bucket that is sorted, whether it is empty or not.
LEMMA SortIs ==
  ASSUME Safe, SortBucket, NEW p, p = sortAt
  PROVE  /\ main = "sorting" /\ p \in Partition /\ hashtable[p] \in Seq(Node)
         /\ sortAt' = sortAt + 1 /\ UNCHANGED <<args, mapVars, redVars, size, main, pc, index>>
         /\ hashtable' \in [Partition -> Seq(Node)]
         /\ \A q \in Partition \ {p} : hashtable'[q] = hashtable[q]
         /\ Len(hashtable'[p]) = Len(hashtable[p])
         /\ \A i, j \in DOMAIN hashtable'[p] :
                i < j => NotAfter(hashtable'[p][i].key, hashtable'[p][j].key)
         /\ \A k \in Key : Count(hashtable'[p], k) = Count(hashtable[p], k)
         /\ \A j \in DOMAIN hashtable'[p] : \E i \in DOMAIN hashtable[p] :
                hashtable[p][i].key = hashtable'[p][j].key
<1>1. PhaseInv /\ TypeOK /\ BucketInv
  BY Parts
<1>2. main = "sorting" /\ p \in Partition
  BY <1>1, Numbers DEF SortBucket, TypeOK, Partition
<1>3. hashtable \in [Partition -> Seq(Node)] /\ hashtable[p] \in Seq(Node)
  BY <1>1, <1>2 DEF TypeOK
<1>4. size[p] = Len(hashtable[p])
  BY <1>1, <1>2 DEF BucketInv, Early
<1> DEFINE t == Sorted(hashtable[p], Len(hashtable[p]))
<1>5. CASE hashtable[p] = <<>>
  <2>1. hashtable' = hashtable
    BY <1>5 DEF SortBucket
  <2>2. DOMAIN hashtable[p] = {}
    BY <1>5
  <2>3. /\ sortAt' = sortAt + 1 /\ UNCHANGED <<args, mapVars, redVars, size, main, pc, index>>
    BY DEF SortBucket
  <2>4. DOMAIN hashtable'[p] = {} /\ hashtable'[p] = hashtable[p]
    BY <2>1, <2>2
  <2> QED BY <1>2, <1>3, <2>1, <2>3, <2>4
<1>6. CASE hashtable[p] # <<>>
  <2>1. hashtable' = [hashtable EXCEPT ![p] = t]
    BY <1>4, <1>6 DEF SortBucket
  <2>2. /\ t \in Seq(Node) /\ Len(t) = Len(hashtable[p])
        /\ \A i, j \in DOMAIN t : i < j => NotAfter(t[i].key, t[j].key)
        /\ \A k \in Key : Count(t, k) = Count(hashtable[p], k)
        /\ \A j \in DOMAIN t : \E i \in DOMAIN hashtable[p] : hashtable[p][i].key = t[j].key
    BY <1>3, <1>6, SortedIs
  <2> HIDE DEF t
  <2>3. hashtable'[p] = t /\ hashtable' \in [Partition -> Seq(Node)]
        /\ \A q \in Partition \ {p} : hashtable'[q] = hashtable[q]
    BY <1>2, <1>3, <2>1, <2>2
  <2>4. /\ sortAt' = sortAt + 1 /\ UNCHANGED <<args, mapVars, redVars, size, main, pc, index>>
    BY DEF SortBucket
  <2>5. PICK e : e = hashtable'[p]
    OBVIOUS
  <2>6. /\ \A i, j \in DOMAIN e : i < j => NotAfter(e[i].key, e[j].key)
        /\ Len(e) = Len(hashtable[p])
        /\ \A k \in Key : Count(e, k) = Count(hashtable[p], k)
        /\ \A j \in DOMAIN e : \E i \in DOMAIN hashtable[p] : hashtable[p][i].key = e[j].key
    BY <2>2, <2>3, <2>5
  <2> QED BY <1>2, <1>3, <2>3, <2>4, <2>5, <2>6
<1> QED BY <1>5, <1>6

LEMMA SortBucketSafe ==
  ASSUME Safe, SortBucket
  PROVE  Safe'
<1>1. PhaseInv /\ TypeOK /\ BucketInv /\ IndexInv /\ FilesPrivate /\ PartitionsPrivate /\ ReduceInv
  BY Parts
<1>2. PICK p : p = sortAt
  OBVIOUS
<1>3. /\ main = "sorting" /\ p \in Partition /\ hashtable[p] \in Seq(Node)
      /\ sortAt' = sortAt + 1 /\ UNCHANGED <<args, mapVars, redVars, size, main, pc, index>>
      /\ hashtable' \in [Partition -> Seq(Node)]
      /\ \A q \in Partition \ {p} : hashtable'[q] = hashtable[q]
      /\ Len(hashtable'[p]) = Len(hashtable[p])
      /\ \A i, j \in DOMAIN hashtable'[p] :
             i < j => NotAfter(hashtable'[p][i].key, hashtable'[p][j].key)
      /\ \A j \in DOMAIN hashtable'[p] : \E i \in DOMAIN hashtable[p] :
             hashtable[p][i].key = hashtable'[p][j].key
  BY <1>2, SortIs
<1>4. TypeOK'
  <2>1. sortAt' \in 0..NumPart
    BY <1>1, <1>2, <1>3, Numbers DEF TypeOK, Partition
  <2> QED BY <1>1, <1>3, <2>1 DEF TypeOK, args, mapVars, redVars
<1>5. PhaseInv'
  BY <1>1, <1>3 DEF PhaseInv, Early, redVars
<1>6. IndexInv' /\ FilesPrivate' /\ PartitionsPrivate'
  BY <1>1, <1>3 DEF IndexInv, FilesPrivate, PartitionsPrivate, Mapping, Reducing,
                    args, mapVars, redVars
<1>7. BucketInv'
  <2>1. client' = client /\ \A k : Part(k)' = Part(k)
    BY <1>3 DEF args, Part
  <2>2. \A q \in Partition : size'[q] = Len(hashtable'[q])
    BY <1>1, <1>3 DEF BucketInv, Early
  <2>3. \A q \in Partition : \A j \in DOMAIN hashtable'[q] : Part(hashtable'[q][j].key) = q
    BY <1>1, <1>3 DEF BucketInv
  <2>4. ASSUME NEW q \in Partition, q < sortAt', NEW i \in DOMAIN hashtable'[q],
               NEW j \in DOMAIN hashtable'[q], i < j
        PROVE  NotAfter(hashtable'[q][i].key, hashtable'[q][j].key)
    <3>1. CASE q = p
      BY <1>3, <2>4, <3>1
    <3>2. CASE q # p
      <4>1. q < sortAt
        BY <1>2, <1>3, <2>4, <3>2, Numbers
      <4> QED BY <1>1, <1>3, <2>4, <3>2, <4>1 DEF BucketInv
    <3> QED BY <3>1, <3>2
  <2> QED BY <2>1, <2>2, <2>3, <2>4 DEF BucketInv
<1>8. ReduceInv'
  <2>1. (\A t \in Reducer : pc'[t] # "get_next") /\ part_num' = 0 /\ out' = <<>>
    BY <1>1, <1>3 DEF PhaseInv, Early, redVars
  <2>2. DOMAIN out' = {} /\ \A q \in Partition : ~(q < part_num')
    BY <2>1, Numbers
  <2> QED BY <2>1, <2>2 DEF ReduceInv, AtKey, Finished
<1> QED BY <1>4, <1>5, <1>6, <1>7, <1>8 DEF Safe, WorkPrivate

(***************************************************************************)
(* The reducers.                                                           *)
(***************************************************************************)

LEMMA RedPhase ==
  ASSUME Safe, NEW t \in Reducer, pc[t] \in RedPlace
  PROVE  /\ main = "reducing" /\ ~Early /\ sortAt = NumPart /\ t \in Thread
         /\ part_num \in Nat /\ NumPart \in Nat /\ index[t] \in Nat
<1>1. PhaseInv /\ TypeOK
  BY Parts
<1>2. main = "reducing" /\ ~Early /\ sortAt = NumPart
  BY <1>1 DEF PhaseInv, Early, TypeOK, RedPlace
<1> QED BY <1>1, <1>2, Numbers DEF TypeOK, Thread

LEMMA RedTestSafe ==
  ASSUME Safe, NEW t \in Reducer, RedTest(t)
  PROVE  Safe'
<1>1. TypeOK /\ BucketInv /\ ReduceInv
  BY Parts
<1>2. /\ main = "reducing" /\ ~Early /\ t \in Thread /\ pc[t] = "red_test"
      /\ part_num \in Nat /\ NumPart \in Nat
  BY RedPhase DEF RedTest, RedPlace
<1>3. UNCHANGED <<args, mapVars, redVars, hashtable, size, main, sortAt, index>>
  BY DEF RedTest
<1>4. /\ \A u \in Thread \ {t} : pc'[u] = pc[u]
      /\ pc'[t] = "red_take" \/ (pc'[t] = "exited" /\ part_num >= NumPart)
      /\ pc' \in [Thread -> Place]
  <2>1. pc \in [Thread -> Place] /\ "red_take" \in Place /\ "exited" \in Place
    BY <1>1 DEF TypeOK, Place
  <2>2. CASE part_num < NumPart
    BY <1>2, <2>1, <2>2 DEF RedTest, Goto
  <2>3. CASE ~(part_num < NumPart)
    BY <1>2, <2>1, <2>3 DEF RedTest, Goto
  <2> QED BY <2>2, <2>3
<1>5. TypeOK'
  BY <1>1, <1>3, <1>4 DEF TypeOK, args, mapVars, redVars
<1>6. BucketInv'
  BY <1>1, <1>2, <1>3, SameBuckets DEF args, Early
<1>7. \A u \in Reducer : /\ pc'[u] = "get_next" <=> pc[u] = "get_next"
                         /\ Reducing(u)' <=> Reducing(u)
  BY <1>2, <1>4 DEF Reducing, Thread
<1>8. ReduceInv'
  <2>1. UNCHANGED <<client, hashtable, index, key, count, out, part_num>>
    BY <1>3 DEF args, redVars
  <2> QED BY <1>1, <1>7, <2>1, SameReduce
<1>9. ~Reducing(t)'
  BY <1>4 DEF Reducing
<1> QED BY <1>2, <1>3, <1>4, <1>5, <1>6, <1>8, <1>9, RedFrame DEF RedPlace, redVars

LEMMA RedTakeSafe ==
  ASSUME Safe, NEW t \in Reducer, RedTake(t)
  PROVE  Safe'
<1>1. TypeOK /\ BucketInv /\ ReduceInv /\ IndexInv
  BY Parts
<1>2. /\ main = "reducing" /\ ~Early /\ t \in Thread /\ pc[t] = "red_take" /\ part_num \in Nat
  BY RedPhase DEF RedTake, RedPlace
<1>3. /\ UNCHANGED <<args, mapVars, key, count, out, hashtable, size, main, sortAt>>
      /\ part_num' = part_num + 1
  BY DEF RedTake
<1>4. /\ \A u \in Thread \ {t} : pc'[u] = pc[u] /\ index'[u] = index[u]
      /\ pc'[t] = "red_loop" /\ index'[t] = part_num
      /\ pc' \in [Thread -> Place] /\ index' \in [Thread -> Nat]
  <2>1. pc \in [Thread -> Place] /\ index \in [Thread -> Nat] /\ "red_loop" \in Place
    BY <1>1 DEF TypeOK, Place
  <2> QED BY <1>2, <2>1 DEF RedTake, Goto
<1>5. TypeOK'
  BY <1>1, <1>2, <1>3, <1>4 DEF TypeOK, args, mapVars
<1>6. BucketInv'
  BY <1>1, <1>2, <1>3, SameBuckets DEF args, Early
<1>7. /\ \A u \in Reducer \ {t} : /\ Reducing(u)' <=> Reducing(u)
                                  /\ pc'[u] = pc[u] /\ index'[u] = index[u]
      /\ Reducing(t)' /\ ~Reducing(t) /\ pc'[t] # "get_next" /\ pc[t] # "get_next"
  BY <1>2, <1>4 DEF Reducing, Thread
<1>8. ReduceInv'
  <2>1. ASSUME NEW p \in Partition PROVE Finished(p)'
    <3>1. CASE p = part_num
      BY <1>4, <1>7, <3>1 DEF Finished
    <3>2. CASE p # part_num
      <4>1. p < part_num' => p < part_num
        BY <1>2, <1>3, <3>2, Numbers
      <4>2. Finished(p)
        BY <1>1 DEF ReduceInv
      <4> QED BY <1>3, <1>7, <4>1, <4>2 DEF Finished
    <3> QED BY <3>1, <3>2
  <2>2. UNCHANGED <<client, hashtable, key, count, out>>
    BY <1>3 DEF args
  <2>3. \A u \in Reducer : /\ pc'[u] = "get_next" <=> pc[u] = "get_next"
                           /\ pc[u] = "get_next" => index'[u] = index[u]
    BY <1>7
  <2> QED BY <1>1, <2>1, <2>2, <2>3, SameCalls DEF ReduceInv
<1>9. \A u \in Reducer \ {t} : Reducing(u) => index[u] # index'[t]
  BY <1>1, <1>4, <1>2 DEF IndexInv
<1> QED BY <1>2, <1>3, <1>4, <1>5, <1>6, <1>7, <1>8, <1>9, RedFrame DEF RedPlace

\* Reduce() is called, or the list of the partition is at its end.
LEMMA RedLoopSafe ==
  ASSUME Safe, NEW t \in Reducer, RedLoop(t)
  PROVE  Safe'
<1>1. TypeOK /\ BucketInv /\ ReduceInv /\ IndexInv /\ PartitionsPrivate
  BY Parts
<1>2. /\ main = "reducing" /\ ~Early /\ t \in Thread /\ pc[t] = "red_loop" /\ sortAt = NumPart
      /\ part_num \in Nat /\ NumPart \in Nat /\ index[t] \in Nat
  BY RedPhase DEF RedLoop, RedPlace
<1>3. UNCHANGED <<args, mapVars, part_num, out, hashtable, size, main, sortAt, index>>
  BY DEF RedLoop
<1>4. BucketInv'
  BY <1>1, <1>2, <1>3, SameBuckets DEF args, Early
<1>5. /\ pc \in [Thread -> Place] /\ key \in [Reducer -> Key] /\ count \in [Reducer -> Nat]
      /\ hashtable \in [Partition -> Seq(Node)] /\ {"get_next", "red_test"} \subseteq Place
  BY <1>1 DEF TypeOK, Place
<1>6. /\ index[t] < part_num
      /\ \A u \in Reducer \ {t} : Reducing(u) => index[u] # index[t]
  BY <1>1, <1>2 DEF IndexInv, PartitionsPrivate, Reducing
<1>7. CASE index[t] < NumPart /\ hashtable[index[t]] # <<>>
  <2>1. PICK p : p = index[t]
    OBVIOUS
  <2>2. PICK s : s = hashtable[p]
    OBVIOUS
  <2>3. p \in Partition /\ s \in Seq(Node) /\ s # <<>>
    BY <1>2, <1>5, <1>7, <2>1, <2>2 DEF Partition
  <2>4. /\ DOMAIN s = 1..Len(s) /\ Len(s) \in Nat /\ 1 \in DOMAIN s /\ s[1].key \in Key
        /\ \A j \in DOMAIN s : s[j].key \in Key /\ (j = 1 \/ 1 < j)
    <3>1. Len(s) \in Nat /\ Len(s) # 0 /\ DOMAIN s = 1..Len(s)
      BY <2>3, ListOf
    <3> QED BY <2>3, <3>1, ListOf
  <2>5. /\ key' = [key EXCEPT ![t] = s[1].key] /\ count' = [count EXCEPT ![t] = 0]
        /\ pc' = [pc EXCEPT ![t] = "get_next"]
    BY <1>7, <2>1, <2>2 DEF RedLoop, Goto
  <2>6. /\ key'[t] = s[1].key /\ count'[t] = 0 /\ pc'[t] = "get_next"
        /\ \A u \in Reducer \ {t} : key'[u] = key[u] /\ count'[u] = count[u]
        /\ \A u \in Thread \ {t} : pc'[u] = pc[u]
        /\ pc' \in [Thread -> Place] /\ key' \in [Reducer -> Key] /\ count' \in [Reducer -> Nat]
    BY <1>2, <1>5, <2>4, <2>5
  <2>7. TypeOK'
    BY <1>1, <1>3, <2>6 DEF TypeOK, args, mapVars
  <2>8. /\ Reducing(t)' /\ Reducing(t)
        /\ \A u \in Reducer \ {t} : /\ Reducing(u)' <=> Reducing(u)
                                    /\ pc'[u] = pc[u]
    BY <1>2, <2>6 DEF Reducing, Thread
  <2>9. Part(s[1].key) = p /\ \A j \in DOMAIN s : NotAfter(s[1].key, s[j].key)
    <3>1. Part(s[1].key) = p
      BY <1>1, <2>2, <2>3, <2>4 DEF BucketInv
    <3>2. p < sortAt
      BY <1>2, <1>7, <2>1
    <3>3. \A j \in DOMAIN s : 1 < j => NotAfter(s[1].key, s[j].key)
      BY <1>1, <2>2, <2>3, <2>4, <3>2 DEF BucketInv
    <3>4. NotAfter(s[1].key, s[1].key)
      BY <2>4, KeyOrder DEF NotAfter
    <3> QED BY <2>4, <3>1, <3>3, <3>4
  <2>10. \A k : Part(k)' = Part(k)
    BY <1>3 DEF Part, args
  <2>11. ReduceInv'
    <3>1. ASSUME NEW u \in Reducer PROVE AtKey(u)'
      <4>1. CASE u = t
        BY <1>3, <2>1, <2>2, <2>3, <2>6, <2>9, <2>10, <4>1 DEF AtKey
      <4>2. CASE u # t
        <5>1. AtKey(u)
          BY <1>1 DEF ReduceInv
        <5> QED BY <1>3, <2>6, <2>8, <2>10, <4>2, <5>1 DEF AtKey
      <4> QED BY <4>1, <4>2
    <3>2. ASSUME NEW i \in DOMAIN out, NEW q \in Partition PROVE Above(i, q)'
      <4>1. Above(i, q)
        BY <1>1 DEF ReduceInv
      <4>2. ASSUME Part(out[i].key) = q, NEW u \in Reducer, pc'[u] = "get_next", index'[u] = q
            PROVE  Before(out[i].key, key'[u])
        <5>1. CASE u = t
          BY <1>3, <2>1, <2>2, <2>4, <2>6, <4>1, <4>2, <5>1 DEF Above
        <5>2. CASE u # t
          BY <1>3, <2>6, <2>8, <4>1, <4>2, <5>2 DEF Above
        <5> QED BY <5>1, <5>2
      <4> QED BY <1>3, <2>10, <4>1, <4>2 DEF Above
    <3>3. ASSUME NEW i \in DOMAIN out, NEW j \in DOMAIN out PROVE InOrder(i, j)'
      BY <1>1, <1>3, <2>10 DEF ReduceInv, InOrder
    <3>4. ASSUME NEW q \in Partition PROVE Finished(q)'
      BY <1>1, <1>3, <2>8 DEF ReduceInv, Finished
    <3> QED BY <1>3, <3>1, <3>2, <3>3, <3>4 DEF ReduceInv
  <2> QED BY <1>2, <1>3, <1>4, <1>6, <2>1, <2>3, <2>6, <2>7, <2>11, RedFrame DEF RedPlace
<1>8. CASE ~(index[t] < NumPart /\ hashtable[index[t]] # <<>>)
  <2>1. pc' = [pc EXCEPT ![t] = "red_test"] /\ UNCHANGED <<key, count>>
    BY <1>8 DEF RedLoop, Goto
  <2>2. /\ pc'[t] = "red_test" /\ pc' \in [Thread -> Place]
        /\ \A u \in Thread \ {t} : pc'[u] = pc[u]
    BY <1>2, <1>5, <2>1
  <2>3. TypeOK'
    BY <1>1, <1>3, <2>1, <2>2 DEF TypeOK, args, mapVars
  <2>4. /\ ~Reducing(t)' /\ pc'[t] # "get_next"
        /\ \A u \in Reducer \ {t} : (Reducing(u)' <=> Reducing(u)) /\ pc'[u] = pc[u]
    BY <2>2 DEF Reducing, Thread
  <2>5. ReduceInv'
    <3>1. ASSUME NEW q \in Partition PROVE Finished(q)'
      <4>1. Finished(q)
        BY <1>1 DEF ReduceInv
      <4>2. index[t] = q => hashtable[q] = <<>>
        BY <1>2, <1>8 DEF Partition
      <4> QED BY <1>3, <2>4, <4>1, <4>2 DEF Finished
    <3>2. UNCHANGED <<client, hashtable, key, count, out, index>>
      BY <1>3, <2>1 DEF args
    <3>3. \A u \in Reducer : pc'[u] = "get_next" <=> pc[u] = "get_next"
      BY <1>2, <2>4
    <3> QED BY <1>1, <3>1, <3>2, <3>3, SameCalls DEF ReduceInv
  <2> QED BY <1>2, <1>3, <1>4, <2>2, <2>3, <2>4, <2>5, RedFrame DEF RedPlace
<1> QED BY <1>7, <1>8

\* What get_next() takes: the head of the list of the reducer's partition.
LEMMA GetNextIs ==
  ASSUME Safe, NEW t \in Reducer, GetNext(t), NEW p, p = index[t]
  PROVE  /\ p \in Partition /\ hashtable[p] \in Seq(Node) /\ hashtable[p] # <<>>
         /\ hashtable[p][1].key = key[t] /\ Part(key[t]) = p /\ pc[t] = "get_next"
         /\ hashtable' \in [Partition -> Seq(Node)] /\ hashtable'[p] = Tail(hashtable[p])
         /\ \A q \in Partition \ {p} : hashtable'[q] = hashtable[q]
         /\ count' \in [Reducer -> Nat] /\ count'[t] = count[t] + 1 /\ count[t] \in Nat
         /\ \A u \in Reducer \ {t} : count'[u] = count[u]
<1>1. TypeOK /\ IndexInv /\ ReduceInv
  BY Parts
<1>2. /\ hashtable \in [Partition -> Seq(Node)] /\ count \in [Reducer -> Nat]
  BY <1>1 DEF TypeOK
<1>3. pc[t] = "get_next" /\ hashtable[p] # <<>> /\ hashtable[p][1].key = key[t]
  BY DEF GetNext, SameKey
<1>4. p \in Partition /\ Part(key[t]) = p
  BY <1>1, <1>3 DEF IndexInv, ReduceInv, AtKey
<1>5. hashtable' = [hashtable EXCEPT ![p] = Tail(hashtable[p])]
  BY DEF GetNext
<1>6. Tail(hashtable[p]) \in Seq(Node)
  BY <1>2, <1>3, <1>4, HeadTailProperties
<1>7. /\ hashtable' \in [Partition -> Seq(Node)] /\ hashtable'[p] = Tail(hashtable[p])
      /\ \A q \in Partition \ {p} : hashtable'[q] = hashtable[q]
  BY <1>2, <1>4, <1>5, <1>6
<1>8. count' = [count EXCEPT ![t] = count[t] + 1]
  BY DEF GetNext
<1>9. /\ count' \in [Reducer -> Nat] /\ count'[t] = count[t] + 1 /\ count[t] \in Nat
      /\ \A u \in Reducer \ {t} : count'[u] = count[u]
  BY <1>2, <1>8
<1> QED BY <1>2, <1>3, <1>4, <1>7, <1>9

LEMMA GetNextSafe ==
  ASSUME Safe, NEW t \in Reducer, GetNext(t)
  PROVE  Safe'
<1>1. TypeOK /\ BucketInv /\ ReduceInv /\ IndexInv /\ PartitionsPrivate
  BY Parts
<1>2. main = "reducing" /\ ~Early /\ t \in Thread /\ sortAt = NumPart /\ part_num \in Nat
  BY RedPhase DEF GetNext, RedPlace
<1>3. UNCHANGED <<args, mapVars, part_num, key, out, size, main, sortAt, pc, index>>
  BY DEF GetNext
<1>4. PICK p : p = index[t]
  OBVIOUS
<1>5. /\ p \in Partition /\ hashtable[p] \in Seq(Node) /\ hashtable[p] # <<>>
      /\ hashtable' \in [Partition -> Seq(Node)] /\ hashtable'[p] = Tail(hashtable[p])
      /\ \A q \in Partition \ {p} : hashtable'[q] = hashtable[q]
      /\ count' \in [Reducer -> Nat] /\ count'[t] = count[t] + 1 /\ count[t] \in Nat
      /\ \A u \in Reducer \ {t} : count'[u] = count[u]
      /\ pc[t] = "get_next"
  BY <1>4, GetNextIs
<1>6. TypeOK'
  BY <1>1, <1>3, <1>5 DEF TypeOK, args, mapVars
<1>7. ASSUME NEW i \in DOMAIN hashtable'[p]
      PROVE  /\ i \in Nat /\ i + 1 \in DOMAIN hashtable[p]
             /\ hashtable'[p][i] = hashtable[p][i + 1]
  <2> DEFINE s == hashtable[p]
  <2>1. /\ Tail(s) \in Seq(Node) /\ Len(Tail(s)) = Len(s) - 1
        /\ \A j \in 1..Len(Tail(s)) : Tail(s)[j] = s[j + 1]
    BY <1>5, HeadTailProperties
  <2>2. DOMAIN s = 1..Len(s) /\ Len(s) \in Nat /\ DOMAIN Tail(s) = 1..Len(Tail(s))
    BY <1>5, <2>1, ListOf
  <2>3. i \in DOMAIN Tail(s) /\ hashtable'[p][i] = Tail(s)[i]
    BY <1>5
  <2> HIDE DEF s
  <2>4. i \in 1..(Len(s) - 1) /\ i + 1 \in DOMAIN s /\ Tail(s)[i] = s[i + 1]
    BY <2>1, <2>2, <2>3
  <2> QED BY <2>3, <2>4 DEF s
<1>8. \A k : Part(k)' = Part(k)
  BY <1>3 DEF Part, args
<1>9. BucketInv'
  <2>1. ASSUME NEW q \in Partition, NEW i \in DOMAIN hashtable'[q]
        PROVE  Part(hashtable'[q][i].key) = q
    <3>1. CASE q = p
      BY <1>1, <1>7, <3>1 DEF BucketInv
    <3>2. CASE q # p
      BY <1>1, <1>5, <3>2 DEF BucketInv
    <3> QED BY <3>1, <3>2
  <2>2. ASSUME NEW q \in Partition, q < sortAt, NEW i \in DOMAIN hashtable'[q],
               NEW j \in DOMAIN hashtable'[q], i < j
        PROVE  NotAfter(hashtable'[q][i].key, hashtable'[q][j].key)
    <3>1. CASE q = p
      <4>1. /\ i \in Nat /\ i + 1 \in DOMAIN hashtable[p] /\ hashtable'[p][i] = hashtable[p][i + 1]
            /\ j \in Nat /\ j + 1 \in DOMAIN hashtable[p] /\ hashtable'[p][j] = hashtable[p][j + 1]
        BY <1>7, <2>2, <3>1
      <4>2. i + 1 < j + 1
        BY <2>2, <4>1
      <4>3. NotAfter(hashtable[p][i + 1].key, hashtable[p][j + 1].key)
        BY <1>1, <2>2, <3>1, <4>1, <4>2 DEF BucketInv
      <4> QED BY <3>1, <4>1, <4>3
    <3>2. CASE q # p
      BY <1>1, <1>5, <2>2, <3>2 DEF BucketInv
    <3> QED BY <3>1, <3>2
  <2>3. ~Early' /\ sortAt' = sortAt
    BY <1>2, <1>3 DEF Early
  <2> QED BY <1>8, <2>1, <2>2, <2>3 DEF BucketInv
<1>10. \A u \in Reducer \ {t} : Reducing(u) => index[u] # p
  BY <1>1, <1>4, <1>5 DEF PartitionsPrivate, Reducing
<1>11. ReduceInv'
  <2>1. ASSUME NEW u \in Reducer PROVE AtKey(u)'
    <3>1. AtKey(u)
      BY <1>1 DEF ReduceInv
    <3>2. CASE u = t
      <4>1. count'[u] # 0
        BY <1>5, <3>2
      <4> QED BY <1>3, <1>4, <1>5, <1>7, <1>8, <3>1, <3>2, <4>1 DEF AtKey
    <3>3. CASE u # t
      <4>1. ASSUME pc[u] = "get_next" PROVE hashtable'[index[u]] = hashtable[index[u]]
        <5>1. index[u] \in Partition /\ index[u] # p
          BY <1>1, <1>10, <3>3, <4>1 DEF IndexInv, Reducing
        <5> QED BY <1>5, <5>1
      <4> QED BY <1>3, <1>5, <1>8, <3>1, <3>3, <4>1 DEF AtKey
    <3> QED BY <3>2, <3>3
  <2>2. ASSUME NEW i \in DOMAIN out, NEW q \in Partition PROVE Above(i, q)'
    <3>1. Above(i, q)
      BY <1>1 DEF ReduceInv
    <3>2. ASSUME Part(out[i].key) = q, NEW j \in DOMAIN hashtable'[q]
          PROVE  Before(out[i].key, hashtable'[q][j].key)
      <4>1. CASE q = p
        BY <1>7, <3>1, <3>2, <4>1 DEF Above
      <4>2. CASE q # p
        BY <1>5, <3>1, <3>2, <4>2 DEF Above
      <4> QED BY <4>1, <4>2
    <3> QED BY <1>3, <1>8, <3>1, <3>2 DEF Above
  <2>3. ASSUME NEW i \in DOMAIN out, NEW j \in DOMAIN out PROVE InOrder(i, j)'
    BY <1>1, <1>3, <1>8 DEF ReduceInv, InOrder
  <2>4. ASSUME NEW q \in Partition PROVE Finished(q)'
    <3>1. Finished(q)
      BY <1>1 DEF ReduceInv
    <3>2. \A u \in Reducer : Reducing(u)' <=> Reducing(u)
      BY <1>3 DEF Reducing
    <3>3. CASE q = p
      BY <1>3, <1>4, <1>5, <3>2, <3>3 DEF Finished, Reducing
    <3>4. CASE q # p
      BY <1>3, <1>5, <3>1, <3>2, <3>4 DEF Finished
    <3> QED BY <3>3, <3>4
  <2> QED BY <1>3, <2>1, <2>2, <2>3, <2>4 DEF ReduceInv
<1>12. index[t] < part_num
  BY <1>1, <1>5 DEF IndexInv, Reducing
<1> QED BY <1>2, <1>3, <1>4, <1>5, <1>6, <1>9, <1>10, <1>11, <1>12, RedFrame DEF RedPlace

\* What is left of a partition when Reduce() returns is above its key.
LEMMA ReturnAbove ==
  ASSUME Safe, NEW t \in Reducer, ReduceReturn(t), NEW p, p = index[t]
  PROVE  /\ p \in Partition /\ Part(key[t]) = p /\ key[t] \in Key /\ count[t] \in Nat \ {0}
         /\ \A j \in DOMAIN hashtable[p] : Before(key[t], hashtable[p][j].key)
<1>1. TypeOK /\ BucketInv /\ IndexInv /\ ReduceInv
  BY Parts
<1>2. pc[t] = "get_next" /\ ~SameKey(t)
  BY DEF ReduceReturn
<1>3. AtKey(t) /\ p \in Partition /\ key[t] \in Key /\ count[t] \in Nat
  BY <1>1, <1>2 DEF ReduceInv, IndexInv, TypeOK
<1>4. hashtable[p] \in Seq(Node)
  BY <1>1, <1>3 DEF TypeOK
<1>5. count[t] # 0 /\ Part(key[t]) = p
  BY <1>2, <1>3 DEF AtKey, SameKey
<1>6. ASSUME NEW j \in DOMAIN hashtable[p] PROVE Before(key[t], hashtable[p][j].key)
  <2>1. DOMAIN hashtable[p] = 1..Len(hashtable[p]) /\ Len(hashtable[p]) \in Nat
    BY <1>4, ListOf
  <2>2. 1 \in DOMAIN hashtable[p] /\ j \in Nat /\ (j = 1 \/ 1 < j) /\ hashtable[p] # <<>>
    BY <1>6, <2>1
  <2>3. hashtable[p][1].key \in Key /\ hashtable[p][j].key \in Key /\ key[t] \in Key
    BY <1>3, <1>4, <1>6, <2>1, <2>2, ListOf
  <2>4. NotAfter(key[t], hashtable[p][1].key) /\ hashtable[p][1].key # key[t]
    BY <1>2, <1>3, <2>2 DEF AtKey, SameKey
  <2>5. p < sortAt
    BY <1>2, <1>3, RedPhase, Numbers DEF Partition, RedPlace
  <2>6. j = 1 \/ NotAfter(hashtable[p][1].key, hashtable[p][j].key)
    BY <1>1, <1>3, <2>2, <2>5 DEF BucketInv
  <2> QED BY <2>3, <2>4, <2>6, KeyOrder DEF NotAfter
<1> QED BY <1>3, <1>5, <1>6

LEMMA ReduceReturnSafe ==
  ASSUME Safe, NEW t \in Reducer, ReduceReturn(t)
  PROVE  Safe'
<1>1. TypeOK /\ BucketInv /\ ReduceInv /\ IndexInv /\ PartitionsPrivate
  BY Parts
<1>2. /\ main = "reducing" /\ ~Early /\ t \in Thread /\ sortAt = NumPart /\ part_num \in Nat
      /\ pc[t] = "get_next"
  BY RedPhase DEF ReduceReturn, RedPlace
<1>3. UNCHANGED <<args, mapVars, part_num, key, count, hashtable, size, main, sortAt, index>>
  BY DEF ReduceReturn
<1>4. PICK p : p = index[t]
  OBVIOUS
<1>5. /\ p \in Partition /\ Part(key[t]) = p /\ key[t] \in Key /\ count[t] \in Nat \ {0}
      /\ \A j \in DOMAIN hashtable[p] : Before(key[t], hashtable[p][j].key)
  BY <1>4, ReturnAbove
<1>6. /\ pc' \in [Thread -> Place] /\ pc'[t] = "red_loop"
      /\ \A u \in Thread \ {t} : pc'[u] = pc[u]
  <2>1. pc \in [Thread -> Place] /\ "red_loop" \in Place /\ pc' = [pc EXCEPT ![t] = "red_loop"]
    BY <1>1 DEF TypeOK, Place, ReduceReturn, Goto
  <2> QED BY <1>2, <2>1
<1>7. PICK e : e = [key |-> key[t], count |-> count[t]]
  OBVIOUS
<1>8. /\ out' \in Seq([key : Key, count : Nat]) /\ Len(out') = Len(out) + 1 /\ Len(out) \in Nat
      /\ DOMAIN out = 1..Len(out) /\ DOMAIN out' = 1..(Len(out) + 1)
      /\ out'[Len(out) + 1] = e /\ \A i \in DOMAIN out : out'[i] = out[i]
  <2>1. out \in Seq([key : Key, count : Nat]) /\ e \in [key : Key, count : Nat]
    BY <1>1, <1>5, <1>7 DEF TypeOK
  <2>2. out' = Append(out, e)
    BY <1>7 DEF ReduceReturn
  <2> QED BY <2>1, <2>2, AppendProperties
<1>9. TypeOK'
  BY <1>1, <1>3, <1>6, <1>8 DEF TypeOK, args, mapVars
<1>10. BucketInv'
  BY <1>1, <1>2, <1>3, SameBuckets DEF args, Early
<1>11. /\ pc'[t] # "get_next" /\ Reducing(t)' /\ Reducing(t) /\ e.key = key[t]
       /\ \A u \in Reducer \ {t} : pc'[u] = pc[u] /\ (Reducing(u)' <=> Reducing(u))
  BY <1>2, <1>6, <1>7 DEF Reducing, Thread
<1>12. \A u \in Reducer \ {t} : Reducing(u) => index[u] # p
  BY <1>1, <1>4, <1>11 DEF PartitionsPrivate
<1>13. \A k : Part(k)' = Part(k)
  BY <1>3 DEF Part, args
<1>14. ReduceInv'
  <2>1. ASSUME NEW u \in Reducer PROVE AtKey(u)'
    BY <1>1, <1>3, <1>11, <1>13 DEF ReduceInv, AtKey
  <2>2. ASSUME NEW i \in DOMAIN out', NEW q \in Partition PROVE Above(i, q)'
    <3>1. CASE i \in DOMAIN out
      <4>1. Above(i, q) /\ out'[i] = out[i]
        BY <1>1, <1>8, <3>1 DEF ReduceInv
      <4> QED BY <1>3, <1>11, <1>13, <4>1 DEF Above
    <3>2. CASE i \notin DOMAIN out
      <4>1. out'[i] = e
        BY <1>8, <3>2
      <4>2. ASSUME Part(e.key) = q
            PROVE  /\ q = p
                   /\ \A u \in Reducer : pc'[u] = "get_next" => index[u] # q
        BY <1>5, <1>11, <1>12, <4>2 DEF Reducing
      <4> QED BY <1>3, <1>5, <1>11, <1>13, <4>1, <4>2 DEF Above
    <3> QED BY <3>1, <3>2
  <2>3. ASSUME NEW i \in DOMAIN out', NEW j \in DOMAIN out' PROVE InOrder(i, j)'
    <3>1. CASE j \in DOMAIN out
      <4>1. CASE i \in DOMAIN out
        <5>1. InOrder(i, j) /\ out'[i] = out[i] /\ out'[j] = out[j]
          BY <1>1, <1>8, <3>1, <4>1 DEF ReduceInv
        <5> QED BY <1>13, <5>1 DEF InOrder
      <4>2. CASE i \notin DOMAIN out
        <5>1. ~(i < j)
          BY <1>8, <3>1, <4>2
        <5> QED BY <5>1 DEF InOrder
      <4> QED BY <4>1, <4>2
    <3>2. CASE j \notin DOMAIN out
      <4>1. out'[j] = e /\ j = Len(out) + 1
        BY <1>8, <3>2
      <4>2. CASE i \in DOMAIN out
        <5>1. Above(i, p) /\ out'[i] = out[i]
          BY <1>1, <1>5, <1>8, <4>2 DEF ReduceInv
        <5>2. Part(out[i].key) = p => Before(out[i].key, key[t])
          BY <1>2, <1>4, <5>1 DEF Above
        <5>3. Part(out'[i].key) = Part(out'[j].key) => Before(out'[i].key, out'[j].key)
          BY <1>5, <1>11, <4>1, <5>1, <5>2
        <5> QED BY <1>13, <5>3 DEF InOrder
      <4>3. CASE i \notin DOMAIN out
        <5>1. ~(i < j)
          BY <1>8, <4>1, <4>3
        <5> QED BY <5>1 DEF InOrder
      <4> QED BY <4>2, <4>3
    <3> QED BY <3>1, <3>2
  <2>4. ASSUME NEW q \in Partition PROVE Finished(q)'
    BY <1>1, <1>3, <1>11 DEF ReduceInv, Finished
  <2> QED BY <1>8, <2>1, <2>2, <2>3, <2>4 DEF ReduceInv
<1>15. index[t] < part_num
  BY <1>1, <1>11 DEF IndexInv
<1> QED BY <1>2, <1>3, <1>4, <1>6, <1>9, <1>10, <1>12, <1>14, <1>15, RedFrame DEF RedPlace

LEMMA InitSafe == Init => Safe
<1> SUFFICES ASSUME Init PROVE Safe
  OBVIOUS
<1>1. /\ main = "mapping" /\ sortAt = 0 /\ part_num = 0 /\ out = <<>> /\ files = 0
      /\ \A t \in Mapper : pc[t] = "map_test" /\ t \in Thread
      /\ \A t \in Reducer : pc[t] = "uncreated" /\ t \in Thread
      /\ \A p \in Partition : hashtable[p] = <<>> /\ size[p] = 0
  BY Numbers DEF Init, Thread
<1>2. TypeOK
  <2>1. content \in [File -> Seq(Node)]
    <3>1. ASSUME NEW m \in Nat PROVE [1..m -> Node] \subseteq Seq(Node)
      BY SeqDef
    <3>2. BoundedSeq(Node, MaxLines) \subseteq Seq(Node)
      BY <3>1, FileAssumption DEF BoundedSeq, SeqOf
    <3> QED BY <3>2 DEF Init
  <2>2. sortAt \in 0..NumPart /\ (CHOOSE k \in Key : TRUE) \in Key
    BY <1>1, Numbers, KeyAssumption
  <2>3. out \in Seq([key : Key, count : Nat]) /\ <<>> \in Seq(Node)
    BY <1>1
  <2>4. pc \in [Thread -> Place]
    BY DEF Init, Place
  <2>5. hashtable \in [Partition -> Seq(Node)]
    BY <2>3 DEF Init
  <2>6. key \in [Reducer -> Key]
    BY <2>2 DEF Init
  <2> QED BY <2>1, <2>2, <2>3, <2>4, <2>5, <2>6 DEF TypeOK, Init
<1>3. PhaseInv
  BY <1>1 DEF PhaseInv, Early, MapPlace
<1>4. IndexInv /\ FilesPrivate /\ PartitionsPrivate
  BY <1>1 DEF IndexInv, FilesPrivate, PartitionsPrivate, Mapping, Reducing
<1>5. \A p \in Partition : DOMAIN hashtable[p] = {} /\ Len(hashtable[p]) = 0 /\ ~(p < 0)
  BY <1>1, Numbers
<1>6. BucketInv
  BY <1>1, <1>5 DEF BucketInv
<1>7. ReduceInv
  <2>1. DOMAIN out = {}
    BY <1>1
  <2> QED BY <1>1, <1>5, <2>1 DEF ReduceInv, AtKey, Finished
<1> QED BY <1>2, <1>3, <1>4, <1>6, <1>7 DEF Safe, WorkPrivate

LEMMA SafeInductive ==
  ASSUME Safe, [Next]_vars
  PROVE  Safe'
<1>1. CASE Next
  <2>1. ASSUME NEW t \in Mapper, MapStep(t) PROVE Safe'
    BY <2>1, MapTestSafe, MapTakeSafe, MapOpenSafe, EmitSafe, MapEndSafe DEF MapStep
  <2>2. ASSUME NEW t \in Reducer, RedStep(t) PROVE Safe'
    BY <2>2, RedTestSafe, RedTakeSafe, RedLoopSafe, GetNextSafe, ReduceReturnSafe DEF RedStep
  <2>3. CASE RunStep
    BY <2>3, JoinMappersSafe, SortBucketSafe, CreateReducersSafe, JoinReducersSafe DEF RunStep
  <2> QED BY <1>1, <2>1, <2>2, <2>3 DEF Next
<1>2. CASE UNCHANGED vars
  BY <1>2 DEF vars, args, mapVars, redVars, Safe, TypeOK, PhaseInv, Early, IndexInv, WorkPrivate,
              FilesPrivate, PartitionsPrivate, Mapping, Reducing, BucketInv, Part, ReduceInv,
              AtKey, Above, InOrder, Finished
<1> QED BY <1>1, <1>2

(***************************************************************************)
(* The nodes, the held values and the printed values of a key: where they  *)
(* are and how many they are.                                              *)
(***************************************************************************)

LEMMA PairCard ==
  ASSUME NEW a, NEW S, IsFiniteSet(S)
  PROVE  /\ IsFiniteSet({a} \X S) /\ Cardinality({a} \X S) = Cardinality(S)
         /\ Cardinality(S) \in Nat
<1>1. IsFiniteSet({a}) /\ Cardinality({a}) = 1
  BY FS_Singleton
<1>2. IsFiniteSet({a} \X S) /\ Cardinality({a} \X S) = Cardinality({a}) * Cardinality(S)
  BY <1>1, FS_Product
<1>3. Cardinality(S) \in Nat
  BY FS_CardinalityType
<1>4. Cardinality({a} \X S) = 1 * Cardinality(S)
  BY <1>1, <1>2
<1>5. \A n \in Nat : 1 * n = n
  OBVIOUS
<1> QED BY <1>2, <1>3, <1>4, <1>5

\* The nodes of a key are all in the bucket of its partition.
LEMMA NodesIs ==
  ASSUME TypeOK, BucketInv, NEW k \in Key
  PROVE  /\ Cardinality(Nodes(k)) = Count(hashtable[Part(k)], k)
         /\ Count(hashtable[Part(k)], k) \in Nat
<1>1. Part(k) \in Partition /\ hashtable[Part(k)] \in Seq(Node)
  BY PartIn DEF TypeOK
<1>2. Nodes(k) = {Part(k)} \X Where(hashtable[Part(k)], k)
  <2>1. ASSUME NEW p \in Partition, NEW j \in DOMAIN hashtable[p], hashtable[p][j].key = k
        PROVE  p = Part(k)
    BY <2>1 DEF BucketInv
  <2> QED BY <1>1, <2>1 DEF Nodes, Where
<1>3. IsFiniteSet(Where(hashtable[Part(k)], k)) /\ Count(hashtable[Part(k)], k) \in Nat
  BY <1>1, CountType
<1> QED BY <1>2, <1>3, PairCard DEF Count

\* Only one reducer has a key.
LEMMA HeldIs ==
  ASSUME Safe, NEW t \in Reducer, pc[t] = "get_next"
  PROVE  Held(key[t]) = {t} \X (1..count[t]) /\ Cardinality(Held(key[t])) = count[t]
<1>1. TypeOK /\ PartitionsPrivate /\ ReduceInv
  BY Parts
<1>2. ASSUME NEW u \in Reducer, pc[u] = "get_next", key[u] = key[t] PROVE u = t
  <2>1. Part(key[u]) = index[u] /\ Part(key[t]) = index[t]
    BY <1>1, <1>2 DEF ReduceInv, AtKey
  <2>2. Reducing(u) /\ Reducing(t) /\ index[u] = index[t]
    BY <1>2, <2>1 DEF Reducing
  <2> QED BY <1>1, <2>2 DEF PartitionsPrivate
<1>3. Held(key[t]) = {t} \X (1..count[t])
  <2>1. {u \in Reducer : pc[u] = "get_next" /\ key[u] = key[t]} = {t}
    BY <1>2
  <2> QED BY <2>1 DEF Held
<1>4. count[t] \in Nat
  BY <1>1 DEF TypeOK
<1>5. IsFiniteSet(1..count[t]) /\ Cardinality(1..count[t]) = count[t]
  BY <1>4, Interval
<1>6. Cardinality({t} \X (1..count[t])) = Cardinality(1..count[t])
  BY <1>5, PairCard
<1> QED BY <1>3, <1>5, <1>6

LEMMA HeldNone ==
  ASSUME NEW k, \A t \in Reducer : ~(pc[t] = "get_next" /\ key[t] = k)
  PROVE  Held(k) = {}
BY DEF Held

LEMMA HeldType ==
  ASSUME Safe, NEW k \in Key
  PROVE  Cardinality(Held(k)) \in Nat
<1>1. CASE \E t \in Reducer : pc[t] = "get_next" /\ key[t] = k
  BY <1>1, HeldIs, Parts DEF TypeOK
<1>2. CASE ~\E t \in Reducer : pc[t] = "get_next" /\ key[t] = k
  BY <1>2, HeldNone, FS_EmptySet
<1> QED BY <1>1, <1>2

LEMMA OutType ==
  ASSUME out \in Seq([key : Key, count : Nat])
  PROVE  \A i \in DOMAIN out : i \in Nat /\ out[i] \in [key : Key, count : Nat]
<1> DEFINE R == [key : Key, count : Nat]
<1>1. out \in Seq(R)
  OBVIOUS
<1> HIDE DEF R
<1>2. Len(out) \in Nat /\ out \in [1..Len(out) -> R] /\ DOMAIN out = 1..Len(out)
  BY <1>1, LenProperties
<1>3. \A i \in DOMAIN out : i \in Nat /\ out[i] \in R
  BY <1>2
<1> QED BY <1>3 DEF R

\* A key is printed once.
LEMMA PrintedIs ==
  ASSUME Safe, NEW j \in DOMAIN out
  PROVE  /\ Printed(out[j].key) = {j} \X (1..out[j].count)
         /\ Cardinality(Printed(out[j].key)) = out[j].count /\ out[j].count \in Nat
<1>1. ReduceInv /\ out \in Seq([key : Key, count : Nat])
  BY Parts DEF TypeOK
<1>2. \A i \in DOMAIN out : i \in Nat /\ out[i] \in [key : Key, count : Nat]
  BY <1>1, OutType
<1>3. ASSUME NEW i \in DOMAIN out, out[i].key = out[j].key PROVE i = j
  <2>1. ~Before(out[i].key, out[i].key)
    BY <1>2, KeyOrder
  <2>2. ~(i < j) /\ ~(j < i)
    BY <1>1, <1>3, <2>1 DEF ReduceInv, InOrder
  <2> QED BY <1>2, <2>2
<1>4. Printed(out[j].key) = {j} \X (1..out[j].count)
  <2>1. {i \in DOMAIN out : out[i].key = out[j].key} = {j}
    BY <1>3
  <2> QED BY <2>1 DEF Printed
<1>5. out[j].count \in Nat
  BY <1>2
<1>6. IsFiniteSet(1..out[j].count) /\ Cardinality(1..out[j].count) = out[j].count
  BY <1>5, Interval
<1>7. Cardinality({j} \X (1..out[j].count)) = Cardinality(1..out[j].count)
  BY <1>6, PairCard
<1> QED BY <1>4, <1>5, <1>6, <1>7

LEMMA PrintedNone ==
  ASSUME NEW k, \A j \in DOMAIN out : out[j].key # k
  PROVE  Printed(k) = {}
BY DEF Printed

LEMMA PrintedType ==
  ASSUME Safe, NEW k \in Key
  PROVE  Cardinality(Printed(k)) \in Nat
<1>1. CASE \E j \in DOMAIN out : out[j].key = k
  BY <1>1, PrintedIs
<1>2. CASE ~\E j \in DOMAIN out : out[j].key = k
  BY <1>2, PrintedNone, FS_EmptySet
<1> QED BY <1>1, <1>2

LEMMA EmittedIs ==
  ASSUME Safe, NEW k \in Key
  PROVE  /\ Emitted(k) = Count(hashtable[Part(k)], k) + Cardinality(Held(k))
                           + Cardinality(Printed(k))
         /\ Count(hashtable[Part(k)], k) \in Nat /\ Cardinality(Held(k)) \in Nat
         /\ Cardinality(Printed(k)) \in Nat /\ Emitted(k) \in Nat
<1>1. Cardinality(Nodes(k)) = Count(hashtable[Part(k)], k) /\ Count(hashtable[Part(k)], k) \in Nat
  BY NodesIs, Parts
<1> QED BY <1>1, HeldType, PrintedType DEF Emitted

(***************************************************************************)
(* The lines of a key.                                                     *)
(***************************************************************************)

LEMMA LineIs ==
  ASSUME NEW k
  PROVE  \A e : e \in Lines(k) <=> \E f \in File : \E j \in DOMAIN content[f] :
                                      e = <<f, j>> /\ content[f][j].key = k
BY DEF Lines

LEMMA LinesFinite ==
  ASSUME TypeOK, NEW k
  PROVE  IsFiniteSet(Lines(k)) /\ IsFiniteSet(ReadLines(k))
<1> DEFINE g == [f \in File |-> {f} \X Where(content[f], k)]
           T == {g[f] : f \in File}
<1>1. ASSUME NEW f \in File PROVE IsFiniteSet(g[f])
  <2>1. content[f] \in Seq(Node)
    BY DEF TypeOK
  <2>2. IsFiniteSet({f} \X Where(content[f], k))
    BY <2>1, CountType, PairCard
  <2> QED BY <2>2
<1>2. Lines(k) = UNION T
  BY DEF Lines, Where
<1>3. IsFiniteSet(T)
  <2>1. g \in Surjection(File, T)
    BY DEF Surjection
  <2> HIDE DEF g, T
  <2> QED BY <2>1, Numbers, FS_Surjection
<1>4. IsFiniteSet(UNION T)
  <2>1. \A S \in T : IsFiniteSet(S)
    BY <1>1
  <2> HIDE DEF T
  <2> QED BY <1>3, <2>1, FS_UNION
<1>5. ReadLines(k) \subseteq Lines(k)
  BY DEF ReadLines
<1> QED BY <1>2, <1>4, <1>5, FS_Subset

(***************************************************************************)
(* What a step does to the number of emitted keys, and to the lines that   *)
(* have been emitted.                                                      *)
(***************************************************************************)

Keeps(k) == Emitted(k)' = Emitted(k) /\ ReadLines(k)' = ReadLines(k)

LEMMA SameEmitted ==
  ASSUME UNCHANGED <<hashtable, key, count, out>>,
         \A u \in Reducer : pc'[u] = "get_next" <=> pc[u] = "get_next"
  PROVE  \A k \in Key : Emitted(k)' = Emitted(k)
<1> SUFFICES ASSUME NEW k \in Key PROVE Emitted(k)' = Emitted(k)
  OBVIOUS
<1>1. Nodes(k)' = Nodes(k) /\ Printed(k)' = Printed(k)
  BY DEF Nodes, Printed
<1>2. {u \in Reducer : pc'[u] = "get_next" /\ key'[u] = k} =
      {u \in Reducer : pc[u] = "get_next" /\ key[u] = k}
  OBVIOUS
<1>3. Held(k)' = Held(k)
  BY <1>2 DEF Held
<1> QED BY <1>1, <1>3 DEF Emitted

LEMMA ReadFrame ==
  ASSUME content' = content,
         \A f \in File : \A j \in DOMAIN content[f] : Read(f, j)' <=> Read(f, j)
  PROVE  \A k \in Key : ReadLines(k)' = ReadLines(k)
<1> SUFFICES ASSUME NEW k \in Key PROVE ReadLines(k)' = ReadLines(k)
  OBVIOUS
<1>1. Lines(k)' = Lines(k)
  BY DEF Lines
<1>2. \A e \in Lines(k) : Read(e[1], e[2])' <=> Read(e[1], e[2])
  <2>1. ASSUME NEW e \in Lines(k) PROVE e[1] \in File /\ e[2] \in DOMAIN content[e[1]]
    <3>1. PICK f \in File : \E j \in DOMAIN content[f] : e = <<f, j>>
      BY LineIs
    <3> QED BY <3>1
  <2> QED BY <2>1
<1> QED BY <1>1, <1>2 DEF ReadLines

LEMMA SameRead ==
  ASSUME UNCHANGED <<content, files, line, index>>, \A u \in Mapper : pc'[u] = pc[u]
  PROVE  \A k \in Key : ReadLines(k)' = ReadLines(k)
<1>1. ASSUME NEW f \in File, NEW j \in DOMAIN content[f] PROVE Read(f, j)' <=> Read(f, j)
  BY DEF Read, Mapping
<1> QED BY <1>1, ReadFrame

LEMMA MapTestKeeps ==
  ASSUME Safe, NEW t \in Mapper, MapTest(t)
  PROVE  \A k \in Key : Keeps(k)
<1>1. pc[t] = "map_test" /\ pc'[t] \in {"map_take", "exited"}
      /\ \A u \in Thread \ {t} : pc'[u] = pc[u]
  BY Parts DEF MapTest, Goto, TypeOK, Thread
<1>2. UNCHANGED <<args, mapVars, redVars, hashtable, index>>
  BY DEF MapTest
<1>3. \A k \in Key : Emitted(k)' = Emitted(k)
  BY <1>1, <1>2, SameEmitted, Numbers DEF redVars, Thread
<1>4. ASSUME NEW f \in File, NEW j \in DOMAIN content[f] PROVE Read(f, j)' <=> Read(f, j)
  <2>1. \A u \in Mapper : (Mapping(u)' <=> Mapping(u)) /\ (Mapping(u) => pc'[u] = pc[u])
    BY <1>1 DEF Mapping, Thread
  <2> QED BY <1>2, <2>1 DEF Read, mapVars
<1> QED BY <1>2, <1>3, <1>4, ReadFrame DEF Keeps, args

LEMMA MapTakeKeeps ==
  ASSUME Safe, NEW t \in Mapper, MapTake(t)
  PROVE  \A k \in Key : Keeps(k)
<1>1. /\ pc[t] = "map_take" /\ pc'[t] = "map_open" /\ index'[t] = files + 1 /\ files' = files + 1
      /\ \A u \in Thread \ {t} : pc'[u] = pc[u] /\ index'[u] = index[u]
      /\ files \in Nat
  BY Parts DEF MapTake, Goto, TypeOK, Thread
<1>2. UNCHANGED <<args, line, redVars, hashtable>>
  BY DEF MapTake
<1>3. \A k \in Key : Emitted(k)' = Emitted(k)
  BY <1>1, <1>2, SameEmitted, Numbers DEF redVars, Thread
<1>4. ASSUME NEW f \in File, NEW j \in DOMAIN content[f] PROVE Read(f, j)' <=> Read(f, j)
  <2>1. /\ \A u \in Mapper \ {t} : (Mapping(u)' <=> Mapping(u)) /\ pc'[u] = pc[u]
                                   /\ index'[u] = index[u]
        /\ ~Mapping(t) /\ Mapping(t)' /\ pc'[t] # "map_line"
    BY <1>1 DEF Mapping, Thread
  <2>2. f \in Nat
    BY Numbers
  <2>3. CASE f = files + 1
    BY <1>1, <2>1, <2>2, <2>3 DEF Read
  <2>4. CASE f # files + 1
    <3>1. f <= files' <=> f <= files
      BY <1>1, <2>2, <2>4
    <3> QED BY <1>1, <1>2, <2>1, <2>4, <3>1 DEF Read
  <2> QED BY <2>3, <2>4
<1> QED BY <1>2, <1>3, <1>4, ReadFrame DEF Keeps, args

LEMMA MapOpenKeeps ==
  ASSUME Safe, NEW t \in Mapper, MapOpen(t)
  PROVE  \A k \in Key : Keeps(k)
<1>1. TypeOK
  BY Parts
<1>2. UNCHANGED <<args, files, redVars, hashtable, index>> /\ pc[t] = "map_open"
  BY DEF MapOpen
<1>3. CASE index[t] \in File
  <2>1. /\ pc'[t] = "map_line" /\ line'[t] = 0
        /\ \A u \in Thread \ {t} : pc'[u] = pc[u]
        /\ \A u \in Mapper \ {t} : line'[u] = line[u]
    BY <1>1, <1>3 DEF MapOpen, Goto, TypeOK, Thread
  <2>2. \A k \in Key : Emitted(k)' = Emitted(k)
    BY <1>2, <2>1, SameEmitted, Numbers DEF redVars, Thread
  <2>3. ASSUME NEW f \in File, NEW j \in DOMAIN content[f] PROVE Read(f, j)' <=> Read(f, j)
    <3>1. /\ \A u \in Mapper \ {t} : (Mapping(u)' <=> Mapping(u)) /\ pc'[u] = pc[u]
          /\ Mapping(t) /\ Mapping(t)' /\ pc[t] # "map_line"
      BY <1>2, <2>1 DEF Mapping, Thread
    <3>2. content[f] \in Seq(Node)
      BY <1>1 DEF TypeOK
    <3>3. j \in 1..Len(content[f]) /\ Len(content[f]) \in Nat
      BY <3>2, ListOf
    <3>4. ~(j <= line'[t])
      BY <2>1, <3>3
    <3> QED BY <1>2, <2>1, <3>1, <3>4 DEF Read
  <2> QED BY <1>2, <2>2, <2>3, ReadFrame DEF Keeps, args
<1>4. CASE index[t] \notin File
  <2>1. UNCHANGED <<line, pc>>
    BY <1>4 DEF MapOpen
  <2> QED BY <1>2, <2>1, SameEmitted, SameRead DEF Keeps, args, redVars
<1> QED BY <1>3, <1>4

LEMMA MapEndKeeps ==
  ASSUME Safe, NEW t \in Mapper, MapEnd(t)
  PROVE  \A k \in Key : Keeps(k)
<1>1. /\ pc[t] = "map_line" /\ pc'[t] = "map_test" /\ line[t] = Len(content[index[t]])
      /\ \A u \in Thread \ {t} : pc'[u] = pc[u]
  BY Parts DEF MapEnd, Goto, TypeOK, Thread
<1>2. UNCHANGED <<args, mapVars, redVars, hashtable, index>>
  BY DEF MapEnd
<1>3. \A k \in Key : Emitted(k)' = Emitted(k)
  BY <1>1, <1>2, SameEmitted, Numbers DEF redVars, Thread
<1>4. ASSUME NEW f \in File, NEW j \in DOMAIN content[f] PROVE Read(f, j)' <=> Read(f, j)
  <2>1. /\ \A u \in Mapper \ {t} : (Mapping(u)' <=> Mapping(u)) /\ pc'[u] = pc[u]
        /\ Mapping(t) /\ ~Mapping(t)'
    BY <1>1 DEF Mapping, Thread
  <2>2. content[f] \in Seq(Node)
    BY Parts DEF TypeOK
  <2>3. j \in 1..Len(content[f]) /\ Len(content[f]) \in Nat
    BY <2>2, ListOf
  <2>4. index[t] = f => j <= line[t]
    BY <1>1, <2>3
  <2> QED BY <1>1, <1>2, <2>1, <2>4 DEF Read, mapVars
<1> QED BY <1>2, <1>3, <1>4, ReadFrame DEF Keeps, args

\* The facts about counts, as formulas that hold after a step as before it.
Sums == /\ \A k \in Key : Emitted(k) = Count(hashtable[Part(k)], k) + Cardinality(Held(k))
                                         + Cardinality(Printed(k))
        /\ \A k \in Key, t \in Reducer : pc[t] = "get_next" /\ key[t] = k =>
                                            Cardinality(Held(k)) = count[t]
        /\ \A k \in Key, j \in DOMAIN out : out[j].key = k => Cardinality(Printed(k)) = out[j].count

LEMMA SumsHold == Safe => Sums
BY EmittedIs, HeldIs, PrintedIs DEF Sums

LEMMA NextEmitted ==
  ASSUME Safe, Safe', client' = client, NEW k \in Key
  PROVE  Emitted(k)' = Count(hashtable'[Part(k)], k) + Cardinality(Held(k)')
                         + Cardinality(Printed(k)')
<1>1. Part(k)' = Part(k)
  BY DEF Part
<1>2. Sums'
  BY SumsHold, PTL
<1>3. Emitted(k)' = Count(hashtable'[Part(k)'], k) + Cardinality(Held(k)')
                      + Cardinality(Printed(k)')
  BY <1>2 DEF Sums, Count, Where
<1> QED BY <1>1, <1>3

LEMMA EmitCounts ==
  ASSUME Safe, Safe', NEW t \in Mapper, NEW f, NEW j, NEW n, NEW p, Emits(t, f, j, n, p),
         NEW k \in Key
  PROVE  /\ Emitted(k)' = Emitted(k) + Bit(n.key = k)
         /\ n.key # k => ReadLines(k)' = ReadLines(k)
         /\ n.key = k => /\ ReadLines(k)' = ReadLines(k) \union {<<f, j>>}
                         /\ <<f, j>> \notin ReadLines(k)
<1>1. TypeOK /\ FilesPrivate
  BY Parts
<1>2. main = "mapping" /\ pc[t] = "map_line" /\ f \in File /\ f <= files /\ f = index[t]
  BY DEF Emits
<1>3. j = line[t] + 1 /\ j \in DOMAIN content[f] /\ n = content[f][j] /\ line[t] \in Nat
  BY <1>1 DEF Emits, TypeOK
<1>4. /\ n \in Node /\ n.key \in Key /\ p = Part(n.key) /\ p \in Partition
      /\ hashtable[p] \in Seq(Node)
  BY DEF Emits
<1>5. UNCHANGED <<args, files, redVars, main, sortAt, pc, index>>
  BY DEF Emits
<1>6. /\ hashtable'[p] = <<n>> \o hashtable[p]
      /\ \A q \in Partition \ {p} : hashtable'[q] = hashtable[q]
  <2>1. hashtable \in [Partition -> Seq(Node)]
    BY <1>1 DEF TypeOK
  <2> QED BY <1>4, <2>1 DEF Emits
<1>7. line'[t] = line[t] + 1 /\ \A u \in Mapper \ {t} : line'[u] = line[u]
  <2>1. line \in [Mapper -> Nat]
    BY <1>1 DEF TypeOK
  <2> QED BY <1>3, <2>1 DEF Emits
<1>8. Emitted(k)' = Emitted(k) + Bit(n.key = k)
  <2>1. Held(k)' = Held(k) /\ Printed(k)' = Printed(k)
    BY <1>5 DEF Held, Printed, redVars
  <2>2. Count(hashtable'[Part(k)], k) = Count(hashtable[Part(k)], k) + Bit(n.key = k)
    <3>1. CASE Part(k) = p
      <4>1. PICK e : e = <<n>> \o hashtable[p]
        OBVIOUS
      <4>2. Count(e, k) = Count(hashtable[p], k) + Bit(n.key = k)
        BY <1>4, <4>1, CountCons
      <4> QED BY <1>6, <3>1, <4>1, <4>2
    <3>2. CASE Part(k) # p
      <4>1. n.key # k /\ Part(k) \in Partition
        BY <1>4, <3>2, KeyPart
      <4>2. Count(hashtable[Part(k)], k) \in Nat
        BY EmittedIs
      <4>3. Bit(n.key = k) = 0
        BY <4>1 DEF Bit
      <4>4. hashtable'[Part(k)] = hashtable[Part(k)]
        BY <1>6, <3>2, <4>1
      <4> QED BY <4>2, <4>3, <4>4
    <3> QED BY <3>1, <3>2
  <2>3. Emitted(k)' = Count(hashtable'[Part(k)], k) + Cardinality(Held(k))
                        + Cardinality(Printed(k))
    BY <1>5, <2>1, NextEmitted DEF args
  <2>4. Bit(n.key = k) \in Nat
    BY DEF Bit
  <2> QED BY <2>2, <2>3, <2>4, EmittedIs
<1>9. Lines(k)' = Lines(k)
  BY <1>5 DEF Lines, args
<1>10. Mapping(t) /\ \A u \in Mapper \ {t} : Mapping(u) => index[u] # f
  BY <1>1, <1>2 DEF FilesPrivate, Mapping
<1>11. ASSUME NEW g \in File, NEW i \in DOMAIN content[g]
       PROVE  Read(g, i)' <=> Read(g, i) \/ (g = f /\ i = j)
  <2>1. \A u \in Mapper : Mapping(u)' <=> Mapping(u)
    BY <1>5 DEF Mapping
  <2>2. CASE g = f
    <3>1. content[f] \in Seq(Node)
      BY <1>1, <1>2 DEF TypeOK
    <3>2. i \in Nat
      BY <2>2, <3>1, ListOf
    <3>3. Read(g, i) <=> i <= line[t]
      BY <1>2, <1>10, <2>2 DEF Read
    <3>4. Read(g, i)' <=> i <= line[t] + 1
      BY <1>2, <1>5, <1>7, <1>10, <2>1, <2>2 DEF Read
    <3> QED BY <1>3, <2>2, <3>2, <3>3, <3>4
  <2>3. CASE g # f
    BY <1>2, <1>5, <1>7, <2>1, <2>3 DEF Read
  <2> QED BY <2>2, <2>3
<1>12. \A e : e \in ReadLines(k) <=>
                \E g \in File : \E i \in DOMAIN content[g] :
                   e = <<g, i>> /\ content[g][i].key = k /\ Read(g, i)
  BY LineIs DEF ReadLines
<1>13. \A e : e \in ReadLines(k)' <=>
                \E g \in File : \E i \in DOMAIN content[g] :
                   e = <<g, i>> /\ content[g][i].key = k /\ Read(g, i)'
  BY <1>9, LineIs DEF ReadLines
<1>14. n.key # k => ReadLines(k)' = ReadLines(k)
  BY <1>3, <1>11, <1>12, <1>13
<1>15. ASSUME n.key = k
       PROVE  ReadLines(k)' = ReadLines(k) \union {<<f, j>>} /\ <<f, j>> \notin ReadLines(k)
  <2>1. ReadLines(k)' = ReadLines(k) \union {<<f, j>>}
    BY <1>2, <1>3, <1>11, <1>12, <1>13, <1>15
  <2>2. ~Read(f, j)
    BY <1>2, <1>3, <1>10 DEF Read
  <2> QED BY <1>12, <2>1, <2>2
<1> QED BY <1>8, <1>14, <1>15

LEMMA SortBucketKeeps ==
  ASSUME Safe, Safe', SortBucket
  PROVE  \A k \in Key : Keeps(k)
<1>1. PICK p : p = sortAt
  OBVIOUS
<1>2. /\ p \in Partition /\ UNCHANGED <<args, mapVars, redVars, size, main, pc, index>>
      /\ \A q \in Partition \ {p} : hashtable'[q] = hashtable[q]
      /\ \A k \in Key : Count(hashtable'[p], k) = Count(hashtable[p], k)
  BY <1>1, SortIs
<1>3. ASSUME NEW k \in Key PROVE Emitted(k)' = Emitted(k)
  <2>1. Held(k)' = Held(k) /\ Printed(k)' = Printed(k)
    BY <1>2 DEF Held, Printed, redVars
  <2>2. Count(hashtable'[Part(k)], k) = Count(hashtable[Part(k)], k)
    BY <1>2, KeyPart
  <2>3. Emitted(k)' = Count(hashtable'[Part(k)], k) + Cardinality(Held(k))
                        + Cardinality(Printed(k))
    BY <1>2, <2>1, NextEmitted DEF args
  <2> QED BY <2>2, <2>3, EmittedIs
<1>4. \A k \in Key : ReadLines(k)' = ReadLines(k)
  BY <1>2, SameRead DEF args, mapVars
<1> QED BY <1>3, <1>4 DEF Keeps

LEMMA RunKeeps ==
  ASSUME Safe, JoinMappers \/ CreateReducers \/ JoinReducers
  PROVE  \A k \in Key : Keeps(k)
<1>1. UNCHANGED <<args, mapVars, redVars, hashtable, index>>
  BY DEF JoinMappers, CreateReducers, JoinReducers
<1>2. CASE CreateReducers
  <2>1. \A u \in Mapper : pc'[u] = pc[u]
    BY <1>2, Numbers DEF CreateReducers, Thread
  <2>2. \A u \in Reducer : pc'[u] # "get_next" /\ pc[u] # "get_next"
    BY <1>2, Parts DEF CreateReducers, Thread, PhaseInv, Early
  <2> QED BY <1>1, <2>1, <2>2, SameEmitted, SameRead DEF Keeps, args, mapVars, redVars
<1>3. CASE JoinMappers \/ JoinReducers
  <2>1. pc' = pc
    BY <1>3 DEF JoinMappers, JoinReducers
  <2> QED BY <1>1, <2>1, SameEmitted, SameRead DEF Keeps, args, mapVars, redVars
<1> QED BY <1>2, <1>3

\* No step of a reducer reads a line.
LEMMA RedReads ==
  ASSUME Safe, NEW t \in Reducer, RedStep(t)
  PROVE  client' = client /\ \A k \in Key : ReadLines(k)' = ReadLines(k)
<1>1. UNCHANGED <<args, mapVars>>
  BY DEF RedStep, RedTest, RedTake, RedLoop, GetNext, ReduceReturn
<1>2. \A u \in Mapper : u \in Thread /\ u # t
  BY Numbers DEF Thread
<1>3. TypeOK
  BY Parts
<1>4. \A u \in Mapper : pc'[u] = pc[u]
  BY <1>2, <1>3 DEF RedStep, RedTest, RedTake, RedLoop, GetNext, ReduceReturn, Goto, TypeOK, Thread
<1>5. \A u \in Mapper : index'[u] = index[u]
  BY <1>2, <1>3 DEF RedStep, RedTest, RedTake, RedLoop, GetNext, ReduceReturn, TypeOK, Thread
<1>6. ASSUME NEW f \in File, NEW j \in DOMAIN content[f] PROVE Read(f, j)' <=> Read(f, j)
  BY <1>1, <1>4, <1>5 DEF Read, Mapping, mapVars
<1> QED BY <1>1, <1>6, ReadFrame DEF args

LEMMA RedTestKeeps ==
  ASSUME Safe, NEW t \in Reducer, RedTest(t) \/ RedTake(t)
  PROVE  \A k \in Key : Keeps(k)
<1>1. UNCHANGED <<key, count, out, hashtable>> /\ pc[t] # "get_next"
  BY DEF RedTest, RedTake, redVars
<1>2. \A u \in Reducer : pc'[u] = "get_next" <=> pc[u] = "get_next"
  BY <1>1, Parts DEF RedTest, RedTake, Goto, TypeOK, Thread
<1>3. \A k \in Key : Emitted(k)' = Emitted(k)
  BY <1>1, <1>2, SameEmitted
<1> QED BY <1>3, RedReads DEF RedStep, Keeps

LEMMA RedLoopKeeps ==
  ASSUME Safe, NEW t \in Reducer, RedLoop(t)
  PROVE  \A k \in Key : Keeps(k)
<1>1. TypeOK
  BY Parts
<1>2. UNCHANGED <<out, hashtable>> /\ pc[t] = "red_loop"
  BY DEF RedLoop
<1>3. ASSUME NEW k \in Key PROVE Emitted(k)' = Emitted(k)
  <2>1. Nodes(k)' = Nodes(k) /\ Printed(k)' = Printed(k)
    BY <1>2 DEF Nodes, Printed
  <2>2. CASE index[t] < NumPart /\ hashtable[index[t]] # <<>>
    <3>1. /\ count'[t] = 0 /\ pc'[t] = "get_next"
          /\ \A u \in Reducer \ {t} : key'[u] = key[u] /\ count'[u] = count[u] /\ pc'[u] = pc[u]
      BY <1>1, <2>2 DEF RedLoop, Goto, TypeOK, Thread
    <3>2. \A e : e \in Held(k)' <=> \E u \in Reducer : /\ pc'[u] = "get_next" /\ key'[u] = k
                                                       /\ e \in {u} \X (1..count'[u])
      BY DEF Held
    <3>3. \A e : e \in Held(k) <=> \E u \in Reducer : /\ pc[u] = "get_next" /\ key[u] = k
                                                      /\ e \in {u} \X (1..count[u])
      BY DEF Held
    <3>4. 1..count'[t] = {}
      BY <3>1
    <3>5. \A e : e \in Held(k)' <=> e \in Held(k)
      BY <1>2, <3>1, <3>2, <3>3, <3>4
    <3>6. Held(k)' = Held(k)
      BY <3>5
    <3> QED BY <2>1, <3>6 DEF Emitted
  <2>3. CASE ~(index[t] < NumPart /\ hashtable[index[t]] # <<>>)
    <3>1. UNCHANGED <<key, count>> /\ \A u \in Reducer : pc'[u] = "get_next" <=> pc[u] = "get_next"
      BY <1>1, <1>2, <2>3 DEF RedLoop, Goto, TypeOK, Thread
    <3> QED BY <1>2, <3>1, SameEmitted
  <2> QED BY <2>2, <2>3
<1> QED BY <1>3, RedReads DEF RedStep, Keeps

LEMMA GetNextKeeps ==
  ASSUME Safe, Safe', NEW t \in Reducer, GetNext(t)
  PROVE  \A k \in Key : Keeps(k)
<1>1. PICK p : p = index[t]
  OBVIOUS
<1>2. /\ p \in Partition /\ hashtable[p] \in Seq(Node) /\ hashtable[p] # <<>>
      /\ hashtable[p][1].key = key[t] /\ Part(key[t]) = p /\ pc[t] = "get_next"
      /\ hashtable'[p] = Tail(hashtable[p])
      /\ \A q \in Partition \ {p} : hashtable'[q] = hashtable[q]
      /\ count'[t] = count[t] + 1 /\ count[t] \in Nat
      /\ \A u \in Reducer \ {t} : count'[u] = count[u]
  BY <1>1, GetNextIs
<1>3. UNCHANGED <<args, mapVars, part_num, key, out, size, main, sortAt, pc, index>>
  BY DEF GetNext
<1>4. PICK s : s = hashtable[p]
  OBVIOUS
<1>5. ASSUME NEW k \in Key PROVE Emitted(k)' = Emitted(k)
  <2>1. Printed(k)' = Printed(k)
    BY <1>3 DEF Printed
  <2>2. Emitted(k)' = Count(hashtable'[Part(k)], k) + Cardinality(Held(k)')
                        + Cardinality(Printed(k))
    BY <1>3, <2>1, NextEmitted DEF args
  <2>3. /\ Emitted(k) = Count(hashtable[Part(k)], k) + Cardinality(Held(k))
                         + Cardinality(Printed(k))
        /\ Count(hashtable[Part(k)], k) \in Nat /\ Cardinality(Held(k)) \in Nat
        /\ Cardinality(Printed(k)) \in Nat
    BY EmittedIs
  <2>4. Count(s, k) = Count(Tail(s), k) + Bit(s[1].key = k) /\ Count(Tail(s), k) \in Nat
    BY <1>2, <1>4, CountTail, HeadTailProperties, CountType
  <2>5. CASE k = key[t]
    <3>1. Cardinality(Held(k)) = count[t]
      BY <1>2, <2>5, SumsHold DEF Sums
    <3>2. Sums'
      BY SumsHold, PTL
    <3>3. Cardinality(Held(k)') = count[t] + 1
      <4>1. pc'[t] = "get_next" /\ key'[t] = k
        BY <1>2, <1>3, <2>5
      <4> QED BY <1>2, <3>2, <4>1 DEF Sums
    <3>4. Bit(s[1].key = k) = 1
      BY <1>2, <1>4, <2>5 DEF Bit
    <3>5. /\ Count(hashtable'[Part(k)], k) = Count(Tail(s), k)
          /\ Count(hashtable[Part(k)], k) = Count(s, k)
      BY <1>2, <1>4, <2>5
    <3> QED BY <1>2, <2>2, <2>3, <2>4, <3>1, <3>3, <3>4, <3>5
  <2>6. CASE k # key[t]
    <3>1. Held(k)' = Held(k)
      <4>1. \A e : e \in Held(k)' <=> \E u \in Reducer : /\ pc[u] = "get_next" /\ key[u] = k
                                                         /\ e \in {u} \X (1..count'[u])
        BY <1>3 DEF Held
      <4>2. \A e : e \in Held(k) <=> \E u \in Reducer : /\ pc[u] = "get_next" /\ key[u] = k
                                                        /\ e \in {u} \X (1..count[u])
        BY DEF Held
      <4>3. \A e : e \in Held(k)' <=> e \in Held(k)
        BY <1>2, <2>6, <4>1, <4>2
      <4> QED BY <4>3
    <3>2. Count(hashtable'[Part(k)], k) = Count(hashtable[Part(k)], k)
      <4>1. CASE Part(k) = p
        <5>1. Bit(s[1].key = k) = 0
          BY <1>2, <1>4, <2>6 DEF Bit
        <5>2. Count(Tail(s), k) = Count(s, k)
          BY <2>4, <5>1
        <5> QED BY <1>2, <1>4, <4>1, <5>2
      <4>2. CASE Part(k) # p
        <5>1. hashtable'[Part(k)] = hashtable[Part(k)]
          BY <1>2, <4>2, KeyPart
        <5> QED BY <5>1
      <4> QED BY <4>1, <4>2
    <3> QED BY <2>2, <2>3, <3>1, <3>2
  <2> QED BY <2>5, <2>6
<1> QED BY <1>5, RedReads DEF RedStep, Keeps

\* When Reduce() returns its key has not been printed, and what the reducer counted
\* is all that was emitted for it.
LEMMA ReturnCounts ==
  ASSUME Safe, NEW t \in Reducer, ReduceReturn(t), NEW k, k = key[t]
  PROVE  /\ k \in Key /\ (\A j \in DOMAIN out : out[j].key # k) /\ count[t] \in Nat \ {0}
         /\ Emitted(k) = count[t] /\ Count(hashtable[Part(k)], k) = 0
         /\ Cardinality(Held(k)) = count[t] /\ Cardinality(Printed(k)) = 0
<1>1. PICK p : p = index[t]
  OBVIOUS
<1>2. /\ p \in Partition /\ Part(k) = p /\ k \in Key /\ count[t] \in Nat \ {0}
      /\ \A j \in DOMAIN hashtable[p] : Before(k, hashtable[p][j].key)
  BY <1>1, ReturnAbove
<1>3. TypeOK /\ ReduceInv
  BY Parts
<1>4. pc[t] = "get_next" /\ ~Before(k, k)
  BY <1>2, KeyOrder DEF ReduceReturn
<1>5. ASSUME NEW j \in DOMAIN out PROVE out[j].key # k
  <2>1. Above(j, p)
    BY <1>2, <1>3 DEF ReduceInv
  <2>2. out[j].key = k => Before(k, k)
    BY <1>1, <1>2, <1>4, <2>1 DEF Above
  <2> QED BY <1>4, <2>2
<1>6. Count(hashtable[p], k) = 0
  <2>1. \A j \in DOMAIN hashtable[p] : hashtable[p][j].key # k
    BY <1>2, <1>4
  <2>2. Where(hashtable[p], k) = {}
    BY <2>1 DEF Where
  <2> QED BY <2>2, FS_EmptySet DEF Count
<1>7. Cardinality(Held(k)) = count[t]
  BY <1>4, HeldIs
<1>8. Cardinality(Printed(k)) = 0
  BY <1>5, PrintedNone, FS_EmptySet
<1>9. Emitted(k) = 0 + count[t] + 0
  BY <1>2, <1>6, <1>7, <1>8, EmittedIs
<1>10. Emitted(k) = count[t]
  BY <1>2, <1>9
<1> QED BY <1>2, <1>5, <1>6, <1>7, <1>8, <1>10

LEMMA ReduceReturnKeeps ==
  ASSUME Safe, Safe', NEW t \in Reducer, ReduceReturn(t)
  PROVE  \A k \in Key : Keeps(k)
<1>1. TypeOK
  BY Parts
<1>2. UNCHANGED <<args, mapVars, part_num, key, count, hashtable, size, main, sortAt, index>>
  BY DEF ReduceReturn
<1>3. pc[t] = "get_next" /\ pc'[t] = "red_loop" /\ \A u \in Thread \ {t} : pc'[u] = pc[u]
  BY <1>1 DEF ReduceReturn, Goto, TypeOK, Thread
<1>4. PICK e : e = [key |-> key[t], count |-> count[t]]
  OBVIOUS
<1>5. /\ DOMAIN out' = DOMAIN out \union {Len(out) + 1} /\ Len(out) + 1 \notin DOMAIN out
      /\ out'[Len(out) + 1] = e /\ \A i \in DOMAIN out : out'[i] = out[i]
  <2> DEFINE R == [key : Key, count : Nat]
  <2>1. out \in Seq(R) /\ e \in R
    BY <1>1, <1>4 DEF TypeOK
  <2>2. out' = Append(out, e)
    BY <1>4 DEF ReduceReturn
  <2> HIDE DEF R
  <2>3. /\ Len(out) \in Nat /\ DOMAIN out = 1..Len(out) /\ DOMAIN out' = 1..(Len(out) + 1)
        /\ out'[Len(out) + 1] = e /\ \A i \in 1..Len(out) : out'[i] = out[i]
    BY <2>1, <2>2, AppendProperties, LenProperties
  <2> QED BY <2>3
<1>6. ASSUME NEW k \in Key PROVE Emitted(k)' = Emitted(k)
  <2>1. /\ Emitted(k) = Count(hashtable[Part(k)], k) + Cardinality(Held(k))
                         + Cardinality(Printed(k))
        /\ Count(hashtable[Part(k)], k) \in Nat /\ Cardinality(Held(k)) \in Nat
        /\ Cardinality(Printed(k)) \in Nat
    BY EmittedIs
  <2>2. Emitted(k)' = Count(hashtable[Part(k)], k) + Cardinality(Held(k)')
                        + Cardinality(Printed(k)')
    BY <1>2, NextEmitted DEF args
  <2>3. CASE k = key[t]
    <3>1. /\ Cardinality(Held(k)) = count[t] /\ Cardinality(Printed(k)) = 0
          /\ count[t] \in Nat \ {0}
      BY <2>3, ReturnCounts
    <3>2. Held(k)' = {}
      <4>1. ASSUME NEW u \in Reducer, pc'[u] = "get_next", key'[u] = k PROVE FALSE
        <5>1. u # t /\ pc[u] = "get_next" /\ key[u] = key[t]
          BY <1>2, <1>3, <2>3, <4>1 DEF Thread
        <5>2. PartitionsPrivate /\ AtKey(u) /\ AtKey(t)
          BY Parts DEF ReduceInv
        <5>3. Reducing(u) /\ Reducing(t) /\ index[u] = index[t]
          BY <1>3, <5>1, <5>2 DEF Reducing, AtKey
        <5> QED BY <5>1, <5>2, <5>3 DEF PartitionsPrivate
      <4>2. {u \in Reducer : pc'[u] = "get_next" /\ key'[u] = k} = {}
        BY <4>1
      <4> QED BY <4>2 DEF Held
    <3>3. Cardinality(Printed(k)') = count[t]
      <4>1. Sums'
        BY SumsHold, PTL
      <4>2. Len(out) + 1 \in DOMAIN out' /\ out'[Len(out) + 1].key = k
            /\ out'[Len(out) + 1].count = count[t]
        BY <1>4, <1>5, <2>3
      <4> QED BY <4>1, <4>2 DEF Sums
    <3>4. Cardinality(Held(k)') = 0
      BY <3>2, FS_EmptySet
    <3> QED BY <2>1, <2>2, <3>1, <3>3, <3>4
  <2>4. CASE k # key[t]
    <3>1. {u \in Reducer : pc'[u] = "get_next" /\ key'[u] = k} =
          {u \in Reducer : pc[u] = "get_next" /\ key[u] = k}
      BY <1>2, <1>3, <2>4 DEF Thread
    <3>2. Held(k)' = Held(k)
      BY <1>2, <3>1 DEF Held
    <3>3. {i \in DOMAIN out' : out'[i].key = k} = {i \in DOMAIN out : out[i].key = k}
      BY <1>4, <1>5, <2>4
    <3>4. Printed(k)' = Printed(k)
      BY <1>5, <3>3 DEF Printed
    <3> QED BY <2>1, <2>2, <3>2, <3>4
  <2> QED BY <2>3, <2>4
<1> QED BY <1>6, RedReads DEF RedStep, Keeps

(***************************************************************************)
(* The theorems.                                                           *)
(***************************************************************************)

LEMMA InitEmitInv == Init => EmitInv
<1> SUFFICES ASSUME Init, NEW k \in Key PROVE Emitted(k) = Cardinality(ReadLines(k))
  BY DEF EmitInv
<1>1. Safe
  BY InitSafe
<1>2. /\ out = <<>> /\ files = 0 /\ \A p \in Partition : hashtable[p] = <<>>
      /\ \A t \in Reducer : pc[t] = "uncreated"
  BY Numbers DEF Init, Thread
<1>3. Count(hashtable[Part(k)], k) = 0
  BY <1>2, <1>1, KeyPart, CountEmpty
<1>4. Held(k) = {} /\ Printed(k) = {}
  BY <1>2, HeldNone, PrintedNone
<1>5. ReadLines(k) = {}
  <2>1. ASSUME NEW e \in ReadLines(k) PROVE FALSE
    <3>1. PICK f \in File : \E j \in DOMAIN content[f] : e = <<f, j>>
      BY LineIs DEF ReadLines
    <3>2. e[1] = f /\ e[1] <= files
      BY <3>1 DEF ReadLines, Read
    <3> QED BY <1>2, <3>2, Numbers
  <2> QED BY <2>1
<1>6. Cardinality({}) = 0
  BY FS_EmptySet
<1> QED BY <1>1, <1>3, <1>4, <1>5, <1>6, EmittedIs

\* What a step of Next does to the numbers: a mapper emits one line, or they are kept.
LEMMA StepCounts ==
  ASSUME Safe, Safe', [Next]_vars
  PROVE  \/ \A k \in Key : Keeps(k)
         \/ \E t \in Mapper : \E f, j, n, p : Emits(t, f, j, n, p)
<1>1. CASE UNCHANGED vars
  BY <1>1, SameEmitted, SameRead DEF vars, args, mapVars, redVars, Keeps
<1>2. ASSUME NEW t \in Mapper, MapStep(t)
      PROVE  (\A k \in Key : Keeps(k)) \/ \E f, j, n, p : Emits(t, f, j, n, p)
  BY <1>2, MapTestKeeps, MapTakeKeeps, MapOpenKeeps, MapEndKeeps, EmitIs DEF MapStep
<1>3. ASSUME NEW t \in Reducer, RedStep(t) PROVE \A k \in Key : Keeps(k)
  BY <1>3, RedTestKeeps, RedLoopKeeps, GetNextKeeps, ReduceReturnKeeps DEF RedStep
<1>4. CASE RunStep
  BY <1>4, SortBucketKeeps, RunKeeps DEF RunStep
<1> QED BY <1>1, <1>2, <1>3, <1>4 DEF Next

LEMMA EmitInvInductive ==
  ASSUME IInv, Safe', [Next]_vars
  PROVE  EmitInv'
<1>1. Safe /\ EmitInv
  BY DEF IInv
<1>2. CASE \A k \in Key : Keeps(k)
  <2>1. ASSUME NEW k \in Key PROVE Emitted(k)' = Cardinality(ReadLines(k)')
    BY <1>1, <1>2 DEF EmitInv, Keeps
  <2> QED BY <2>1 DEF EmitInv
<1>3. ASSUME NEW t \in Mapper, NEW f, NEW j, NEW n, NEW p, Emits(t, f, j, n, p)
      PROVE  EmitInv'
  <2>1. ASSUME NEW k \in Key PROVE Emitted(k)' = Cardinality(ReadLines(k)')
    <3>1. /\ Emitted(k)' = Emitted(k) + Bit(n.key = k)
          /\ n.key # k => ReadLines(k)' = ReadLines(k)
          /\ n.key = k => /\ ReadLines(k)' = ReadLines(k) \union {<<f, j>>}
                          /\ <<f, j>> \notin ReadLines(k)
      BY <1>1, <1>3, EmitCounts
    <3>2. Emitted(k) = Cardinality(ReadLines(k)) /\ Emitted(k) \in Nat /\ IsFiniteSet(ReadLines(k))
      BY <1>1, EmittedIs, LinesFinite, Parts DEF EmitInv
    <3>3. CASE n.key = k
      <4>1. Bit(n.key = k) = 1
        BY <3>3 DEF Bit
      <4>2. Cardinality(ReadLines(k) \union {<<f, j>>}) = Cardinality(ReadLines(k)) + 1
        BY <3>1, <3>2, <3>3, FS_AddElement
      <4> QED BY <3>1, <3>2, <3>3, <4>1, <4>2
    <3>4. CASE n.key # k
      <4>1. Bit(n.key = k) = 0
        BY <3>4 DEF Bit
      <4> QED BY <3>1, <3>2, <3>4, <4>1
    <3> QED BY <3>3, <3>4
  <2> QED BY <2>1 DEF EmitInv
<1> QED BY <1>1, <1>2, <1>3, StepCounts

\* The inductive invariant.
THEOREM Invariance == Spec => []IInv
<1>1. Init => IInv
  BY InitSafe, InitEmitInv DEF IInv
<1>2. IInv /\ [Next]_vars => IInv'
  <2> SUFFICES ASSUME IInv, [Next]_vars PROVE IInv'
    OBVIOUS
  <2>1. Safe'
    BY SafeInductive DEF IInv
  <2> QED BY <2>1, EmitInvInductive DEF IInv
<1> QED BY <1>1, <1>2, PTL DEF Spec

\* Every variable has its type: the buckets, what is printed and the counters too.
THEOREM TypeCorrect == Spec => []TypeOK
<1>1. IInv => TypeOK
  BY Parts DEF IInv
<1> QED BY <1>1, Invariance, PTL

\* No two mappers work on one file and no two reducers on one partition, though the
\* counters are tested outside the mutex and lists are taken from without one.
THEOREM WorkIsPrivate == Spec => []WorkPrivate
<1>1. IInv => WorkPrivate
  BY DEF IInv, Safe
<1> QED BY <1>1, Invariance, PTL

\* When MR_Run() returns, what was printed for a key is how many lines of the files
\* have it.
THEOREM LinesCountedOnce == Spec => []CompleteOnReturn
<1>1. IInv => CompleteOnReturn
  <2> SUFFICES ASSUME IInv, main = "returned", NEW k \in Key
               PROVE  Cardinality(Printed(k)) = Cardinality(Lines(k))
    BY DEF CompleteOnReturn
  <2>1. Safe /\ EmitInv /\ TypeOK /\ PhaseInv /\ IndexInv /\ ReduceInv
    BY Parts DEF IInv
  <2>2. /\ \A t \in Mapper : pc[t] = "exited" /\ files >= TotalFiles
        /\ \A t \in Reducer : pc[t] = "exited" /\ part_num >= NumPart
    <3>1. \A t \in Thread : pc[t] # "exited" => main # "returned"
      BY <2>1 DEF PhaseInv, Thread
    <3> QED BY <2>1, <3>1 DEF IndexInv, Thread
  <2>3. files >= TotalFiles /\ part_num >= NumPart
    BY <2>2, ThreadAssumption
  <2>4. Count(hashtable[Part(k)], k) = 0
    <3>1. Part(k) \in Partition /\ Part(k) < part_num
      BY <2>1, <2>3, KeyPart, Numbers DEF Partition, TypeOK
    <3>2. hashtable[Part(k)] = <<>>
      BY <2>1, <2>2, <3>1 DEF ReduceInv, Finished, Reducing
    <3> QED BY <3>2, CountEmpty
  <2>5. Cardinality(Held(k)) = 0
    BY <2>2, HeldNone, FS_EmptySet
  <2>6. Emitted(k) = Cardinality(Printed(k))
    BY <2>1, <2>4, <2>5, EmittedIs
  <2>7. ReadLines(k) = Lines(k)
    <3>1. ASSUME NEW e \in Lines(k) PROVE Read(e[1], e[2])
      <4>1. PICK f \in File : \E j \in DOMAIN content[f] : e = <<f, j>>
        BY LineIs
      <4>2. e[1] = f /\ f <= files
        BY <2>1, <2>3, <4>1, FileAssumption DEF File, TypeOK
      <4> QED BY <2>2, <4>2 DEF Read, Mapping
    <3> QED BY <3>1 DEF ReadLines
  <2> QED BY <2>1, <2>6, <2>7 DEF EmitInv
<1> QED BY <1>1, Invariance, PTL

\* What is printed of a partition is in the order of strcmp(), and in the sort client
\* the numbers printed of a lower partition are lower.
THEOREM OutputIsSorted == Spec => []OutputSorted
<1>1. IInv => OutputSorted
  <2> SUFFICES ASSUME IInv, NEW i \in DOMAIN out, NEW j \in DOMAIN out
               PROVE  LET k == out[i].key  l == out[j].key
                      IN  /\ i < j /\ Part(k) = Part(l) => Before(k, l)
                          /\ client = "sort" /\ Part(k) < Part(l) => atol(k) < atol(l)
    BY DEF OutputSorted
  <2>1. ReduceInv /\ out[i].key \in Key /\ out[j].key \in Key /\ client \in Client
    BY OutType, Parts DEF IInv, TypeOK
  <2>2. i < j /\ Part(out[i].key) = Part(out[j].key) => Before(out[i].key, out[j].key)
    BY <2>1 DEF ReduceInv, InOrder
  <2>3. client = "sort" /\ Part(out[i].key) < Part(out[j].key)
          => atol(out[i].key) < atol(out[j].key)
    BY <2>1, SortedPartitionOrder DEF Part
  <2> QED BY <2>2, <2>3
<1> QED BY <1>1, Invariance, PTL

LEMMA EmitsOne ==
  ASSUME Safe, Safe', NEW t \in Mapper, NEW f, NEW j, NEW n, NEW p, Emits(t, f, j, n, p)
  PROVE  \A k \in Key : Emitted(k)' = IF k = n.key THEN Emitted(k) + 1 ELSE Emitted(k)
<1> SUFFICES ASSUME NEW k \in Key
             PROVE  Emitted(k)' = IF k = n.key THEN Emitted(k) + 1 ELSE Emitted(k)
  OBVIOUS
<1>1. /\ Emitted(k)' = Emitted(k) + Bit(n.key = k)
      /\ n.key # k => ReadLines(k)' = ReadLines(k)
      /\ n.key = k => /\ ReadLines(k)' = ReadLines(k) \union {<<f, j>>}
                      /\ <<f, j>> \notin ReadLines(k)
  BY EmitCounts
<1>2. Bit(n.key = k) = IF k = n.key THEN 1 ELSE 0
  BY DEF Bit
<1>3. Emitted(k) \in Nat
  BY EmittedIs
<1> QED BY <1>1, <1>2, <1>3

\* MR_Run() with its threads implements GroupByKey: MR_Emit() emits a key, the return
\* of Reduce() reduces one that was emitted, once and with all of its values.
THEOREM Refinement == Spec => ImplementsGroupByKey
<1> DEFINE em == [k \in Key |-> Emitted(k)]
<1>1. Init => GBK!Init
  <2> SUFFICES ASSUME Init PROVE GBK!Init
    OBVIOUS
  <2>1. ASSUME NEW k \in Key PROVE Emitted(k) = 0
    <3>1. Safe
      BY InitSafe
    <3>2. /\ out = <<>> /\ \A p \in Partition : hashtable[p] = <<>>
          /\ \A t \in Reducer : pc[t] = "uncreated"
      BY Numbers DEF Init, Thread
    <3>3. Count(hashtable[Part(k)], k) = 0
      BY <3>2, <3>1, KeyPart, CountEmpty
    <3>4. Held(k) = {} /\ Printed(k) = {} /\ Cardinality({}) = 0
      BY <3>2, HeldNone, PrintedNone, FS_EmptySet
    <3>5. Cardinality(Held(k)) = 0 /\ Cardinality(Printed(k)) = 0
      BY <3>4
    <3>6. Emitted(k) = 0 + 0 + 0
      BY <3>1, <3>3, <3>5, EmittedIs
    <3> QED BY <3>6
  <2>2. out = <<>>
    BY DEF Init
  <2> QED BY <2>1, <2>2 DEF GBK!Init
<1>2. ASSUME IInv, IInv', [Next]_vars PROVE [GBK!Next]_<<em, out>>
  <2>1. Safe /\ Safe' /\ TypeOK /\ PhaseInv
    BY <1>2, Parts DEF IInv
  <2>2. ASSUME NEW t \in Mapper, NEW f, NEW j, NEW n, NEW p, Emits(t, f, j, n, p)
        PROVE  GBK!Next
    <3>1. out = <<>> /\ out' = out /\ n.key \in Key
      BY <2>1, <2>2 DEF Emits, PhaseInv, Early, redVars
    <3>2. \A k \in Key : Emitted(k)' = IF k = n.key THEN Emitted(k) + 1 ELSE Emitted(k)
      BY <2>1, <2>2, EmitsOne
    <3>3. em' = [em EXCEPT ![n.key] = @ + 1]
      BY <3>1, <3>2
    <3>4. GBK!Emit(n.key)
      BY <3>1, <3>3 DEF GBK!Emit
    <3> QED BY <3>1, <3>4 DEF GBK!Next
  <2>3. ASSUME \A k \in Key : Keeps(k) PROVE em' = em
    BY <2>3 DEF Keeps
  <2>4. ASSUME NEW t \in Reducer, ReduceReturn(t) PROVE GBK!Next
    <3>1. PICK k : k = key[t]
      OBVIOUS
    <3>2. /\ k \in Key /\ (\A j \in DOMAIN out : out[j].key # k) /\ count[t] \in Nat \ {0}
          /\ Emitted(k) = count[t]
      BY <2>1, <2>4, <3>1, ReturnCounts
    <3>3. em' = em
      BY <2>1, <2>3, <2>4, ReduceReturnKeeps
    <3>4. em[k] = count[t] /\ em[k] > 0
      BY <3>2
    <3>5. out' = Append(out, [key |-> k, count |-> em[k]])
      BY <2>4, <3>1, <3>4 DEF ReduceReturn
    <3>6. GBK!Reduce(k)
      BY <3>2, <3>3, <3>4, <3>5 DEF GBK!Reduce
    <3> QED BY <3>2, <3>6 DEF GBK!Next
  <2>5. CASE \E t \in Reducer : ReduceReturn(t)
    BY <2>4, <2>5
  <2>6. CASE ~\E t \in Reducer : ReduceReturn(t)
    <3>1. out' = out
      BY <1>2, <2>6 DEF Next, MapStep, RedStep, RunStep, MapTest, MapTake, MapOpen, Emit, MapEnd,
                        RedTest, RedTake, RedLoop, GetNext, JoinMappers, SortBucket,
                        CreateReducers, JoinReducers, redVars, vars
    <3> QED BY <1>2, <2>1, <2>2, <2>3, <3>1, StepCounts
  <2> QED BY <2>5, <2>6
<1> QED BY <1>1, <1>2, Invariance, PTL DEF Spec, ImplementsGroupByKey, GBK!Spec
=============================================================================
