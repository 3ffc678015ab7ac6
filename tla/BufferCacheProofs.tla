-------------------------- MODULE BufferCacheProofs --------------------------
(***************************************************************************)
(* Proofs about BufferCache for every number of processes, buffers and     *)
(* blocks: the buffers and their users are kept apart, bget() gives up     *)
(* only when no buffer is free, and the cache implements BlockStore.       *)
(***************************************************************************)
EXTENDS BufferCache, FiniteSetTheorems, FunctionTheorems, WellFoundedInduction, TLAPS

\* A process works on a buffer unless it runs; whoever uses a buffer uses it
\* for a block.
CurInv == /\ \A p \in Proc : cur[p] = NoBuf <=> pc[p] = "run"
          /\ \A b \in Buf, p \in Proc : b \in held[p] \/ cur[p] = b => blockno[b] # NoBlock

\* What is in the cache and not dirty is on the disk.
CopyInv == /\ dirty \subseteq valid
           /\ \A b \in valid : blockno[b] # NoBlock
           /\ \A b \in valid \ dirty : data[b] = disk[blockno[b]]

\* A request has something to do until it leaves the queue; a process that was
\* woken before that finds its request in the queue.
PendInv == /\ \A p \in Proc : pc[p] = "iderw" => cur[p] \notin valid \ dirty
           /\ \A i \in DOMAIN queue : queue[i] \notin valid \ dirty
           /\ \A p \in Proc : pc[p] = "disk_awake" /\ cur[p] \notin valid \ dirty =>
                  \E i \in DOMAIN queue : queue[i] = cur[p]

\* Every buffer is in the list.
LruInv == \A b \in Buf : \E i \in Buf : lru[i] = b

Rest == CurInv /\ CopyInv /\ PendInv /\ LruInv
IInv == TypeOK /\ BuffersSound /\ PanicOnlyWhenFull /\ Rest

(***************************************************************************)
(* The list of buffers, and who uses them.                                 *)
(***************************************************************************)

\* Sets of numbers have a least member.
LEMMA Least ==
  ASSUME NEW T, T \subseteq Nat, T # {}
  PROVE  \E i \in T : \A j \in T : i <= j
<1>1. PICK i \in T : \A j \in T : ~ (<<j, i>> \in OpToRel(<, Nat))
  BY NatLessThanWellFounded, WFMin
<1>2. ASSUME NEW j \in T PROVE i <= j
  <2>1. i \in Nat /\ j \in Nat /\ ~ (j < i)
    BY <1>1 DEF OpToRel
  <2> QED BY <2>1
<1> QED BY <1>2

\* The search of bget() for a block ends at a buffer of that block.
LEMMA FirstFound ==
  ASSUME TypeOK, LruInv, NEW S, S \subseteq Buf, S # {}
  PROVE  First(S) \in S
<1> DEFINE T == {i \in Buf : lru[i] \in S}
<1>1. T \subseteq Nat /\ T # {}
  <2>1. PICK k \in Buf : lru[k] \in S
    BY DEF LruInv
  <2>2. T \subseteq Nat
    BY DEF Buf
  <2> QED BY <2>1, <2>2
<1>2. PICK i \in T : \A j \in T : i <= j
  BY <1>1, Least
<1>3. \E k \in Buf : lru[k] \in S /\ \A j \in Buf : lru[j] \in S => k <= j
  BY <1>2
<1> QED BY <1>3 DEF First

\* The search for a buffer to recycle ends at one that nobody uses.
LEMMA LastFound ==
  ASSUME TypeOK, LruInv, NEW S, S \subseteq Buf, S # {}
  PROVE  Last(S) \in S
<1> DEFINE T == {NBUF - i : i \in {k \in Buf : lru[k] \in S}}
<1>1. T \subseteq Nat /\ T # {}
  <2>1. PICK k \in Buf : lru[k] \in S
    BY DEF LruInv
  <2>2. T \subseteq Nat
    BY BufAssumption DEF Buf
  <2> QED BY <2>1, <2>2
<1>2. PICK t \in T : \A u \in T : t <= u
  BY <1>1, Least
<1>3. PICK i \in Buf : lru[i] \in S /\ t = NBUF - i
  BY <1>2
<1>4. ASSUME NEW j \in Buf, lru[j] \in S PROVE j <= i
  <2>1. NBUF - i <= NBUF - j
    BY <1>2, <1>3, <1>4
  <2> QED BY <2>1, BufAssumption DEF Buf
<1>5. \E k \in Buf : lru[k] \in S /\ \A j \in Buf : lru[j] \in S => j <= k
  BY <1>3, <1>4
<1> QED BY <1>5 DEF Last

\* Moving a buffer to the head keeps every buffer in the list.
LEMMA MovedKeeps ==
  ASSUME TypeOK, LruInv, NEW b \in Buf
  PROVE  /\ Moved(b) \in [Buf -> Buf]
         /\ \A c \in Buf : \E i \in Buf : Moved(b)[i] = c
<1> DEFINE at == CHOOSE i \in Buf : lru[i] = b
<1> HIDE DEF at
<1>1. at \in Buf /\ lru[at] = b
  BY DEF at, LruInv
<1>2. Moved(b) = [i \in Buf |-> IF i = 1 THEN b ELSE IF i <= at THEN lru[i - 1] ELSE lru[i]]
  BY DEF Moved, at
<1>3. Moved(b) \in [Buf -> Buf]
  <2>1. \A i \in Buf : i # 1 => i - 1 \in Buf
    BY BufAssumption DEF Buf
  <2>2. \A i \in Buf : lru[i] \in Buf
    BY DEF TypeOK
  <2> QED BY <1>2, <2>1, <2>2
<1>4. ASSUME NEW c \in Buf PROVE \E i \in Buf : Moved(b)[i] = c
  <2>1. PICK k \in Buf : lru[k] = c
    BY DEF LruInv
  <2>2. CASE k = at
    <3>1. 1 \in Buf /\ Moved(b)[1] = b
      BY <1>1, <1>2, BufAssumption DEF Buf
    <3> QED BY <2>1, <2>2, <3>1, <1>1
  <2>3. CASE k < at
    <3>1. k + 1 \in Buf /\ k + 1 # 1 /\ k + 1 <= at /\ (k + 1) - 1 = k
      BY <1>1, <2>3, BufAssumption DEF Buf
    <3> QED BY <2>1, <3>1, <1>2
  <2>4. CASE k > at
    <3>1. k # 1 /\ ~(k <= at)
      BY <1>1, <2>4, BufAssumption DEF Buf
    <3> QED BY <2>1, <3>1, <1>2
  <2>5. k < at \/ k = at \/ k > at
    BY <1>1, BufAssumption DEF Buf
  <2> QED BY <2>2, <2>3, <2>4, <2>5
<1> QED BY <1>3, <1>4

\* Users are finitely many.
LEMMA UsersFinite ==
  ASSUME NEW b
  PROVE  IsFiniteSet(Users(b)) /\ Cardinality(Users(b)) \in Nat
<1>1. Users(b) \in SUBSET Proc
  BY DEF Users
<1> QED BY <1>1, ProcAssumption, FS_Subset, FS_CardinalityType

\* The buffer that bget() takes for a block is one of that block.
LEMMA HitBuffer ==
  ASSUME IInv, NEW n \in Block, Cached(n) # {}
  PROVE  First(Cached(n)) \in Buf /\ blockno[First(Cached(n))] = n
<1>1. First(Cached(n)) \in Cached(n)
  <2>1. Cached(n) \subseteq Buf
    BY DEF Cached
  <2> QED BY <2>1, FirstFound DEF IInv, Rest
<1> QED BY <1>1 DEF Cached

\* The buffer that bget() recycles is nobody's.
LEMMA RecycleBuffer ==
  ASSUME IInv, Unused # {}
  PROVE  LET b == Last(Unused)
         IN  /\ b \in Buf /\ refcnt[b] = 0 /\ b \notin dirty
             /\ \A p \in Proc : b \notin held[p] /\ cur[p] # b
             /\ holder[b] = NoProc
<1> DEFINE b == Last(Unused)
<1>1. b \in Unused
  <2>1. Unused \subseteq Buf
    BY DEF Unused
  <2> QED BY <2>1, LastFound DEF IInv, Rest
<1>2. b \in Buf /\ refcnt[b] = 0 /\ b \notin dirty
  BY <1>1 DEF Unused
<1> HIDE DEF b
<1>3. Users(b) = {}
  <2>1. Cardinality(Users(b)) = 0
    BY <1>2 DEF IInv, BuffersSound, Counted
  <2> QED BY <2>1, UsersFinite, FS_EmptySet
<1>4. \A p \in Proc : b \notin held[p] /\ cur[p] # b
  BY <1>3 DEF Users
<1>5. holder[b] = NoProc
  <2>1. \A p \in Proc : holder[b] # p
    BY <1>2, <1>4 DEF IInv, BuffersSound, Exclusive
  <2>2. holder[b] \in Proc \union {NoProc}
    BY <1>2 DEF IInv, TypeOK
  <2> QED BY <2>1, <2>2
<1> QED BY <1>2, <1>4, <1>5 DEF b

(***************************************************************************)
(* Every step preserves the types.                                         *)
(***************************************************************************)
LEMMA TypeStep ==
  ASSUME IInv, Next
  PROVE  TypeOK'
<1> USE DEF bufs, procs
<1>0. TypeOK
  BY DEF IInv
<1>1. CASE Ideintr
  <2>1. Active \in Buf /\ queue' \in Seq(Buf)
    BY <1>0, <1>1 DEF TypeOK, Ideintr, Active
  <2>2. ASSUME Active \in dirty PROVE disk' \in [Block -> Value] /\ data' \in [Buf -> Value]
    BY <1>0, <1>1, <2>1, <2>2 DEF TypeOK, Ideintr
  <2>3. ASSUME Active \notin dirty PROVE disk' \in [Block -> Value] /\ data' \in [Buf -> Value]
    <3>1. PICK i \in DOMAIN queue : queue[i] = Active
      BY <1>0, <1>1 DEF TypeOK, Ideintr, Active
    <3>2. PICK p \in Proc : cur[p] = Active
      BY <3>1 DEF IInv, BuffersSound, Requested
    <3>3. blockno[Active] \in Block
      BY <1>0, <2>1, <3>2 DEF IInv, Rest, CurInv, TypeOK
    <3> QED BY <1>0, <1>1, <2>1, <2>3, <3>3 DEF TypeOK, Ideintr
  <2>4. pc' \in [Proc -> Label]
    BY <1>0, <1>1 DEF TypeOK, Ideintr, Wakeup, Label
  <2>5. valid' \subseteq Buf /\ dirty' \subseteq Buf
    BY <1>0, <1>1, <2>1 DEF TypeOK, Ideintr
  <2> QED BY <1>0, <1>1, <2>1, <2>2, <2>3, <2>4, <2>5 DEF TypeOK, Ideintr
<1>2. ASSUME NEW p \in Proc, NEW n \in Block, Bget(p, n) PROVE TypeOK'
  <2>1. CASE Hit(p, n)
    <3> DEFINE b == First(Cached(n))
    <3>1. b \in Buf
      BY <2>1, HitBuffer DEF Hit
    <3>2. /\ refcnt' = [refcnt EXCEPT ![b] = @ + 1]
          /\ pc' = [pc EXCEPT ![p] = "lock"] /\ cur' = [cur EXCEPT ![p] = b]
          /\ UNCHANGED <<lru, blockno, valid, dirty, data, holder, queue, disk, held, panic>>
      BY <1>2, <2>1 DEF Bget, Hit, Goto
    <3> HIDE DEF b
    <3>3. refcnt' \in [Buf -> Nat]
      <4>1. refcnt \in [Buf -> Nat]
        BY <1>0 DEF TypeOK
      <4> QED BY <3>1, <3>2, <4>1
    <3> QED BY <1>0, <3>1, <3>2, <3>3 DEF TypeOK, Label
  <2>2. CASE Recycle(p, n)
    <3> DEFINE b == Last(Unused)
    <3>1. b \in Buf
      BY <2>2, RecycleBuffer DEF Recycle
    <3>2. /\ blockno' = [blockno EXCEPT ![b] = n] /\ refcnt' = [refcnt EXCEPT ![b] = 1]
          /\ valid' = valid \ {b} /\ dirty' = dirty \ {b}
          /\ pc' = [pc EXCEPT ![p] = "lock"] /\ cur' = [cur EXCEPT ![p] = b]
          /\ UNCHANGED <<lru, data, holder, queue, disk, held, panic>>
      BY <1>2, <2>2 DEF Bget, Recycle, Goto
    <3> HIDE DEF b
    <3> QED BY <1>0, <3>1, <3>2 DEF TypeOK, Label
  <2>3. CASE NoBuffers(n)
    BY <1>0, <1>2, <2>3 DEF TypeOK, Bget, NoBuffers
  <2> QED BY <1>2, <2>1, <2>2, <2>3 DEF Bget
<1>3. ASSUME NEW p \in Proc, Proceed(p) PROVE TypeOK'
  <2>0. pc[p] # "run" => cur[p] \in Buf
    BY <1>0 DEF IInv, Rest, CurInv, TypeOK, NoBuf
  <2>1. CASE Lock(p)
    <3>1. holder' \in [Buf -> Proc \union {NoProc}]
      BY <1>0, <2>1 DEF TypeOK, Lock
    <3>2. UNCHANGED held \/ held' = [held EXCEPT ![p] = @ \union {cur[p]}]
      BY <2>1 DEF Lock
    <3>3. \E l \in Label, b \in {cur[p], NoBuf} : Goto(p, l, b)
      BY <2>1 DEF Lock, Label
    <3>4. pc' \in [Proc -> Label] /\ cur' \in [Proc -> Buf \union {NoBuf}]
      BY <1>0, <3>3 DEF TypeOK, Goto
    <3>5. held' \in [Proc -> SUBSET Buf]
      <4>1. cur[p] \in Buf
        BY <2>0, <2>1 DEF Lock, Runs
      <4>2. held \in [Proc -> SUBSET Buf]
        BY <1>0 DEF TypeOK
      <4> QED BY <3>2, <4>1, <4>2
    <3> QED BY <1>0, <2>1, <3>1, <3>4, <3>5 DEF TypeOK, Lock
  <2>2. CASE Iderw(p)
    <3>1. cur[p] \notin valid \ dirty
      BY <2>2 DEF Iderw, Runs, IInv, Rest, PendInv
    <3>2. /\ queue' = Append(queue, cur[p]) /\ cur[p] \in Buf /\ Goto(p, "disk_sleep", cur[p])
          /\ UNCHANGED <<bufs, holder, disk, held, panic>>
      BY <2>0, <2>2, <3>1 DEF Iderw, Runs
    <3>3. queue' \in Seq(Buf)
      <4>1. queue \in Seq(Buf)
        BY <1>0 DEF TypeOK
      <4> QED BY <3>2, <4>1
    <3>4. pc' \in [Proc -> Label] /\ cur' \in [Proc -> Buf \union {NoBuf}]
      BY <1>0, <3>2 DEF TypeOK, Goto, Label
    <3> QED BY <1>0, <3>2, <3>3, <3>4 DEF TypeOK
  <2>3. CASE DiskAwake(p)
    <3>1. UNCHANGED held \/ held' = [held EXCEPT ![p] = @ \union {cur[p]}]
      BY <2>3 DEF DiskAwake
    <3>2. \E l \in Label, b \in {cur[p], NoBuf} : Goto(p, l, b)
      BY <2>3 DEF DiskAwake, Label
    <3>3. pc' \in [Proc -> Label] /\ cur' \in [Proc -> Buf \union {NoBuf}]
      BY <1>0, <3>2 DEF TypeOK, Goto
    <3>4. held' \in [Proc -> SUBSET Buf]
      <4>1. cur[p] \in Buf
        BY <2>0, <2>3 DEF DiskAwake, Runs
      <4>2. held \in [Proc -> SUBSET Buf]
        BY <1>0 DEF TypeOK
      <4> QED BY <3>1, <4>1, <4>2
    <3> QED BY <1>0, <2>3, <3>3, <3>4 DEF TypeOK, DiskAwake
  <2>4. CASE Brelse(p)
    <3>1. cur[p] \in Buf /\ Moved(cur[p]) \in [Buf -> Buf]
      BY <1>0, <2>0, <2>4, MovedKeeps DEF Brelse, Runs, IInv, Rest
    <3>2. refcnt[cur[p]] - 1 \in Nat
      <4>1. p \in Users(cur[p])
        BY DEF Users
      <4>2. Cardinality(Users(cur[p])) # 0 /\ Cardinality(Users(cur[p])) \in Nat
        BY <4>1, UsersFinite, FS_EmptySet
      <4>3. refcnt[cur[p]] = Cardinality(Users(cur[p]))
        BY <3>1 DEF IInv, BuffersSound, Counted
      <4> QED BY <4>2, <4>3
    <3>3. refcnt' = [refcnt EXCEPT ![cur[p]] = @ - 1] /\ lru' \in {Moved(cur[p]), lru}
      BY <2>4 DEF Brelse
    <3>4. refcnt' \in [Buf -> Nat] /\ lru' \in [Buf -> Buf]
      BY <1>0, <3>1, <3>2, <3>3 DEF TypeOK
    <3>5. pc' \in [Proc -> Label] /\ cur' \in [Proc -> Buf \union {NoBuf}]
      BY <1>0, <2>4 DEF TypeOK, Brelse, Goto, Label
    <3> QED BY <1>0, <2>4, <3>4, <3>5 DEF TypeOK, Brelse
  <2> QED BY <1>3, <2>1, <2>2, <2>3, <2>4 DEF Proceed
<1>4. ASSUME NEW p \in Proc, Use(p) PROVE TypeOK'
  <2>1. ASSUME NEW b \in Buf, NEW v \in Value, LogWrite(p, b, v) PROVE TypeOK'
    BY <1>0, <2>1 DEF TypeOK, LogWrite
  <2>2. ASSUME NEW b \in Buf, NEW v \in Value, Bwrite(p, b, v) PROVE TypeOK'
    BY <1>0, <2>2 DEF TypeOK, Bwrite, Goto, Label
  <2>3. ASSUME NEW b \in Buf, Releasesleep(p, b) PROVE TypeOK'
    BY <1>0, <2>3 DEF TypeOK, Releasesleep, Label
  <2> QED BY <1>4, <2>1, <2>2, <2>3 DEF Use
<1>5. ASSUME NEW p \in Proc, Kill(p) PROVE TypeOK'
  BY <1>0, <1>5 DEF TypeOK, Kill, Label
<1> QED BY <1>1, <1>2, <1>3, <1>4, <1>5 DEF Next

(***************************************************************************)
(* Every step preserves the rest of IInv.                                  *)
(***************************************************************************)

\* The types that the steps below use.
LEMMA Types ==
  ASSUME IInv
  PROVE  /\ pc \in [Proc -> Label] /\ cur \in [Proc -> Buf \union {NoBuf}]
         /\ held \in [Proc -> SUBSET Buf] /\ refcnt \in [Buf -> Nat]
         /\ holder \in [Buf -> Proc \union {NoProc}] /\ queue \in Seq(Buf)
         /\ valid \subseteq Buf /\ dirty \subseteq Buf /\ NoBuf \notin Buf
<1>1. NoBuf \notin Buf
  BY BufAssumption DEF NoBuf, Buf
<1> QED BY <1>1 DEF IInv, TypeOK

LEMMA DataTypes ==
  ASSUME IInv
  PROVE  /\ blockno \in [Buf -> Block \union {NoBlock}]
         /\ data \in [Buf -> Value] /\ disk \in [Block -> Value]
BY DEF IInv, TypeOK

\* What a process works on.
LEMMA WorksOn ==
  ASSUME IInv, NEW p \in Proc
  PROVE  /\ cur[p] = NoBuf <=> pc[p] = "run"
         /\ pc[p] # "run" => cur[p] \in Buf
         /\ \A b \in held[p] : b \in Buf /\ b # cur[p]
<1>1. cur[p] \in Buf \union {NoBuf} /\ held[p] \subseteq Buf
  BY Types
<1>2. cur[p] = NoBuf <=> pc[p] = "run"
  BY DEF IInv, Rest, CurInv
<1>3. cur[p] \notin held[p]
  BY DEF IInv, BuffersSound, Filled
<1> QED BY <1>1, <1>2, <1>3

\* A process that becomes, or stops being, a user of a buffer.
LEMMA UserCounted ==
  ASSUME NEW b, NEW p
  PROVE  /\ p \notin Users(b) => Cardinality(Users(b) \union {p}) = Cardinality(Users(b)) + 1
         /\ p \in Users(b) => Cardinality(Users(b) \ {p}) = Cardinality(Users(b)) - 1
BY UsersFinite, FS_AddElement, FS_RemoveElement

\* Counted, when p becomes a user of b, or stops being one.
LEMMA CountedStep ==
  ASSUME IInv, NEW p, NEW b \in Buf,
         \A c \in Buf : c # b => Users(c)' = Users(c),
         \/ /\ p \notin Users(b) /\ Users(b)' = Users(b) \union {p}
            /\ refcnt' = [refcnt EXCEPT ![b] = @ + 1]
         \/ /\ p \in Users(b) /\ Users(b)' = Users(b) \ {p}
            /\ refcnt' = [refcnt EXCEPT ![b] = @ - 1]
  PROVE  Counted'
<1>1. refcnt \in [Buf -> Nat] /\ \A c \in Buf : refcnt[c] = Cardinality(Users(c))
  BY Types DEF IInv, BuffersSound, Counted
<1>2. refcnt'[b] = Cardinality(Users(b)')
  BY <1>1, UserCounted
<1>3. \A c \in Buf : c # b => refcnt'[c] = Cardinality(Users(c)')
  BY <1>1
<1> QED
  <2>1. \A c \in Buf : refcnt'[c] = Cardinality(Users(c)')
    BY <1>2, <1>3
  <2> QED BY <2>1 DEF Counted

LEMMA HitStep ==
  ASSUME IInv, NEW p \in Proc, NEW n \in Block, Bget(p, n), Hit(p, n)
  PROVE  BuffersSound' /\ Rest'
<1>1. PICK b \in Buf : b = First(Cached(n)) /\ blockno[b] = n
  BY HitBuffer DEF Hit
<1>2. /\ pc[p] = "run" /\ b \notin held[p]
      /\ refcnt' = [refcnt EXCEPT ![b] = @ + 1]
      /\ pc' = [pc EXCEPT ![p] = "lock"] /\ cur' = [cur EXCEPT ![p] = b]
      /\ UNCHANGED <<lru, blockno, valid, dirty, data, holder, queue, disk, held, panic>>
  BY <1>1 DEF Bget, Hit, Goto, Runs
<1>3. /\ cur[p] = NoBuf /\ NoBuf \notin Buf
      /\ pc'[p] = "lock" /\ cur'[p] = b
      /\ \A q \in Proc : q # p => pc'[q] = pc[q] /\ cur'[q] = cur[q]
  BY <1>2, Types, WorksOn
<1>4. OneBuffer'
  BY <1>2 DEF IInv, BuffersSound, OneBuffer
<1>5. Counted'
  <2>1. Users(b)' = Users(b) \union {p} /\ \A c \in Buf : c # b => Users(c)' = Users(c)
    BY <1>1, <1>2, <1>3 DEF Users
  <2>2. p \notin Users(b)
    BY <1>1, <1>2, <1>3 DEF Users
  <2> QED BY <1>1, <1>2, <2>1, <2>2, CountedStep
<1>6. Exclusive'
  BY <1>2, <1>3 DEF IInv, BuffersSound, Exclusive
<1>7. Filled'
  BY <1>2, <1>3 DEF IInv, BuffersSound, Filled
<1>8. Requested'
  BY <1>2, <1>3 DEF IInv, BuffersSound, Requested
<1>9. NoForgottenSleeper'
  BY <1>2, <1>3 DEF IInv, BuffersSound, NoForgottenSleeper
<1>10. CurInv'
  BY <1>1, <1>2, <1>3, BlockAssumption DEF IInv, Rest, CurInv
<1>11. CopyInv' /\ LruInv'
  BY <1>2 DEF IInv, Rest, CopyInv, LruInv
<1>12. PendInv'
  BY <1>2, <1>3 DEF IInv, Rest, PendInv
<1> QED BY <1>4, <1>5, <1>6, <1>7, <1>8, <1>9, <1>10, <1>11, <1>12 DEF BuffersSound, Rest

LEMMA RecycleStep ==
  ASSUME IInv, NEW p \in Proc, NEW n \in Block, Bget(p, n), Recycle(p, n)
  PROVE  BuffersSound' /\ Rest'
<1>1. PICK b \in Buf : /\ b = Last(Unused) /\ refcnt[b] = 0 /\ b \notin dirty
                       /\ \A q \in Proc : b \notin held[q] /\ cur[q] # b
  BY RecycleBuffer DEF Recycle
<1>2. /\ pc[p] = "run" /\ Cached(n) = {}
      /\ blockno' = [blockno EXCEPT ![b] = n] /\ valid' = valid \ {b} /\ dirty' = dirty
      /\ refcnt' = [refcnt EXCEPT ![b] = 1]
      /\ pc' = [pc EXCEPT ![p] = "lock"] /\ cur' = [cur EXCEPT ![p] = b]
      /\ UNCHANGED <<lru, data, holder, queue, disk, held, panic>>
  BY <1>1 DEF Bget, Recycle, Goto, Runs
<1>3. /\ cur[p] = NoBuf /\ NoBuf \notin Buf
      /\ pc'[p] = "lock" /\ cur'[p] = b
      /\ \A q \in Proc : q # p => pc'[q] = pc[q] /\ cur'[q] = cur[q]
  BY <1>2, Types, WorksOn
<1>a. /\ \A c \in Buf : blockno'[c] = IF c = b THEN n ELSE blockno[c]
      /\ \A c \in Buf : blockno[c] # n
  BY <1>2, DataTypes DEF Cached
<1>4. OneBuffer'
  BY <1>a DEF IInv, BuffersSound, OneBuffer
<1>5. Counted'
  <2>1. Users(b)' = Users(b) \union {p} /\ \A c \in Buf : c # b => Users(c)' = Users(c)
    BY <1>1, <1>2, <1>3 DEF Users
  <2>2. p \notin Users(b)
    BY <1>1, <1>2, <1>3 DEF Users
  <2>3. refcnt' = [refcnt EXCEPT ![b] = @ + 1]
    BY <1>1, <1>2, Types
  <2> QED BY <2>1, <2>2, <2>3, CountedStep
<1>6. Exclusive'
  BY <1>2, <1>3 DEF IInv, BuffersSound, Exclusive
<1>7. Filled'
  BY <1>1, <1>2, <1>3 DEF IInv, BuffersSound, Filled
<1>8. Requested'
  BY <1>2, <1>3 DEF IInv, BuffersSound, Requested
<1>9. NoForgottenSleeper'
  BY <1>2, <1>3 DEF IInv, BuffersSound, NoForgottenSleeper
<1>10. CurInv'
  BY <1>1, <1>2, <1>3, <1>a, BlockAssumption DEF IInv, Rest, CurInv
<1>11. CopyInv' /\ LruInv'
  <2>1. valid \subseteq Buf
    BY Types
  <2>2. CopyInv'
    BY <1>1, <1>2, <1>a, <2>1 DEF IInv, Rest, CopyInv
  <2> QED BY <1>2, <2>2 DEF IInv, Rest, LruInv
<1>12. PendInv'
  BY <1>1, <1>2, <1>3 DEF IInv, Rest, PendInv
<1> QED BY <1>4, <1>5, <1>6, <1>7, <1>8, <1>9, <1>10, <1>11, <1>12 DEF BuffersSound, Rest

LEMMA LockStep ==
  ASSUME IInv, NEW p \in Proc, Lock(p)
  PROVE  BuffersSound' /\ Rest'
<1>1. PICK b \in Buf : b = cur[p]
  BY WorksOn DEF Lock, Runs
<1>2. pc[p] = "lock" /\ UNCHANGED <<bufs, queue, disk, panic>>
  BY DEF Lock, Runs
<1>3. \/ /\ holder[b] # NoProc /\ UNCHANGED <<holder, held>> /\ Goto(p, "lock_sleep", b)
      \/ /\ holder[b] = NoProc /\ holder' = [holder EXCEPT ![b] = p] /\ b \in valid
         /\ Goto(p, "run", NoBuf) /\ held' = [held EXCEPT ![p] = @ \union {b}]
      \/ /\ holder[b] = NoProc /\ holder' = [holder EXCEPT ![b] = p] /\ b \notin valid
         /\ Goto(p, "iderw", b) /\ UNCHANGED held
  BY <1>1 DEF Lock
<1>4. /\ \A q \in Proc : q # p => pc'[q] = pc[q] /\ cur'[q] = cur[q] /\ held'[q] = held[q]
      /\ \A c \in Buf : c # b => holder'[c] = holder[c]
      /\ b \notin held[p] /\ NoBuf \notin Buf
      /\ \/ /\ holder[b] # NoProc /\ holder'[b] = holder[b]
            /\ held'[p] = held[p] /\ pc'[p] = "lock_sleep" /\ cur'[p] = b
         \/ /\ holder[b] = NoProc /\ holder'[b] = p /\ b \in valid
            /\ held'[p] = held[p] \union {b} /\ pc'[p] = "run" /\ cur'[p] = NoBuf
         \/ /\ holder[b] = NoProc /\ holder'[b] = p /\ b \notin valid
            /\ held'[p] = held[p] /\ pc'[p] = "iderw" /\ cur'[p] = b
  BY <1>1, <1>3, Types, WorksOn DEF Goto
<1>5. OneBuffer'
  BY <1>2 DEF IInv, BuffersSound, OneBuffer, bufs
<1>6. Counted'
  <2>1. \A c \in Buf : Users(c)' = Users(c)
    BY <1>1, <1>4 DEF Users
  <2> QED BY <1>2, <2>1 DEF IInv, BuffersSound, Counted, bufs
<1>7. Exclusive'
  <2>1. \A c \in Buf, q \in Proc : holder[c] = q <=>
           \/ c \in held[q]
           \/ cur[q] = c /\ pc[q] \in {"iderw", "disk_sleep", "disk_awake"}
    BY DEF IInv, BuffersSound, Exclusive
  <2>2. ASSUME NEW c \in Buf, NEW q \in Proc
        PROVE  holder'[c] = q <=>
           \/ c \in held'[q]
           \/ cur'[q] = c /\ pc'[q] \in {"iderw", "disk_sleep", "disk_awake"}
    BY <1>1, <1>2, <1>4, <2>1, ProcAssumption
  <2> QED BY <2>2 DEF Exclusive
<1>8. Filled'
  BY <1>1, <1>2, <1>4, Types DEF IInv, BuffersSound, Filled, bufs
<1>9. Requested'
  BY <1>2, <1>4 DEF IInv, BuffersSound, Requested
<1>10. NoForgottenSleeper'
  BY <1>2, <1>4, WorksOn, ProcAssumption DEF IInv, BuffersSound, NoForgottenSleeper
<1>11. CurInv'
  BY <1>1, <1>2, <1>4 DEF IInv, Rest, CurInv, bufs
<1>12. CopyInv' /\ LruInv'
  BY <1>2 DEF IInv, Rest, CopyInv, LruInv, bufs
<1>13. PendInv'
  BY <1>1, <1>2, <1>4 DEF IInv, Rest, PendInv, bufs
<1> QED BY <1>5, <1>6, <1>7, <1>8, <1>9, <1>10, <1>11, <1>12, <1>13 DEF BuffersSound, Rest

LEMMA IderwStep ==
  ASSUME IInv, NEW p \in Proc, Iderw(p)
  PROVE  BuffersSound' /\ Rest'
<1>1. PICK b \in Buf : b = cur[p]
  BY WorksOn DEF Iderw, Runs
<1>a. b \notin valid \ dirty
  BY <1>1 DEF Iderw, Runs, IInv, Rest, PendInv
<1>2. /\ pc[p] = "iderw" /\ queue' = Append(queue, b) /\ Goto(p, "disk_sleep", b)
      /\ UNCHANGED <<lru, blockno, valid, dirty, refcnt, data, holder, disk, held, panic>>
  BY <1>1, <1>a DEF Iderw, Runs, bufs
<1>3. /\ \A q \in Proc : q # p => pc'[q] = pc[q]
      /\ cur' = cur /\ pc'[p] = "disk_sleep" /\ NoBuf \notin Buf
  BY <1>1, <1>2, Types DEF Goto
<1>4. OneBuffer' /\ CopyInv' /\ LruInv'
  BY <1>2 DEF IInv, BuffersSound, OneBuffer, Rest, CopyInv, LruInv
<1>5. Counted'
  <2>1. \A c \in Buf : Users(c)' = Users(c)
    BY <1>2, <1>3 DEF Users
  <2> QED BY <1>2, <2>1 DEF IInv, BuffersSound, Counted
<1>6. Exclusive'
  BY <1>2, <1>3 DEF IInv, BuffersSound, Exclusive
<1>7. Filled'
  BY <1>2, <1>3 DEF IInv, BuffersSound, Filled
<1>8. Requested'
  <2>1. /\ queue \in Seq(Buf) /\ Len(queue) \in Nat /\ DOMAIN queue = 1..Len(queue)
        /\ DOMAIN queue' = 1..(Len(queue) + 1) /\ queue'[Len(queue) + 1] = b
        /\ \A i \in 1..Len(queue) : queue'[i] = queue[i]
    BY <1>2, Types
  <2>2. \A i \in 1..Len(queue) : queue[i] # b
    <3> SUFFICES ASSUME NEW i \in 1..Len(queue), queue[i] = b PROVE FALSE
      OBVIOUS
    <3>1. PICK q \in Proc : pc[q] \in {"disk_sleep", "disk_awake"} /\ cur[q] = b
      BY <2>1 DEF IInv, BuffersSound, Requested
    <3>2. holder[b] = p /\ holder[b] = q
      BY <1>1, <1>2, <3>1 DEF IInv, BuffersSound, Exclusive
    <3> QED BY <1>2, <3>1, <3>2
  <2>3. \A i, j \in DOMAIN queue' : queue'[i] = queue'[j] => i = j
    BY <2>1, <2>2 DEF IInv, BuffersSound, Requested
  <2>4. ASSUME NEW q \in Proc, pc'[q] = "disk_sleep"
        PROVE  \E i \in DOMAIN queue' : queue'[i] = cur'[q]
    <3>1. CASE q = p
      BY <1>1, <1>3, <2>1, <3>1
    <3>2. CASE q # p
      <4>1. PICK i \in 1..Len(queue) : queue[i] = cur[q]
        BY <1>3, <2>1, <2>4, <3>2 DEF IInv, BuffersSound, Requested
      <4> QED BY <1>3, <2>1, <4>1
    <3> QED BY <3>1, <3>2
  <2>5. ASSUME NEW i \in DOMAIN queue'
        PROVE  \E q \in Proc : /\ pc'[q] \in {"disk_sleep", "disk_awake"}
                              /\ cur'[q] = queue'[i]
    <3>1. CASE i = Len(queue) + 1
      BY <1>1, <1>3, <2>1, <3>1
    <3>2. CASE i # Len(queue) + 1
      <4>1. i \in 1..Len(queue)
        BY <2>1, <3>2
      <4>2. PICK q \in Proc : pc[q] \in {"disk_sleep", "disk_awake"} /\ cur[q] = queue[i]
        BY <2>1, <4>1 DEF IInv, BuffersSound, Requested
      <4> QED BY <1>2, <1>3, <2>1, <4>1, <4>2
    <3> QED BY <3>1, <3>2
  <2> QED BY <2>3, <2>4, <2>5 DEF Requested
<1>9. NoForgottenSleeper'
  BY <1>2, <1>3 DEF IInv, BuffersSound, NoForgottenSleeper
<1>10. CurInv'
  BY <1>2, <1>3 DEF IInv, Rest, CurInv
<1>11. PendInv'
  <2>1. /\ queue \in Seq(Buf) /\ DOMAIN queue = 1..Len(queue) /\ Len(queue) \in Nat
        /\ DOMAIN queue' = 1..(Len(queue) + 1) /\ queue'[Len(queue) + 1] = b
        /\ \A i \in 1..Len(queue) : queue'[i] = queue[i]
    BY <1>2, Types
  <2>2. \A i \in DOMAIN queue' : queue'[i] \notin valid \ dirty
    BY <1>a, <2>1 DEF IInv, Rest, PendInv
  <2>3. ASSUME NEW q \in Proc, pc'[q] = "disk_awake", cur[q] \notin valid \ dirty
        PROVE  \E i \in DOMAIN queue' : queue'[i] = cur[q]
    <3>1. PICK i \in DOMAIN queue : queue[i] = cur[q]
      BY <1>3, <2>3 DEF IInv, Rest, PendInv
    <3> QED BY <2>1, <3>1
  <2>4. \A q \in Proc : pc'[q] = "iderw" => cur[q] \notin valid \ dirty
    BY <1>3 DEF IInv, Rest, PendInv
  <2> QED BY <1>2, <1>3, <2>2, <2>3, <2>4 DEF PendInv
<1> QED BY <1>4, <1>5, <1>6, <1>7, <1>8, <1>9, <1>10, <1>11 DEF BuffersSound, Rest

\* A process whose request is done has the buffer.
LEMMA DoneStep ==
  ASSUME IInv, NEW p \in Proc, DiskAwake(p), cur[p] \in valid \ dirty
  PROVE  BuffersSound' /\ Rest'
<1>1. PICK b \in Buf : b = cur[p]
  BY WorksOn DEF DiskAwake, Runs
<1>2. /\ pc[p] = "disk_awake" /\ b \in valid \ dirty /\ NoBuf \notin Buf
      /\ UNCHANGED <<lru, blockno, valid, dirty, refcnt, data, holder, queue, disk, panic>>
  BY <1>1, Types DEF DiskAwake, Runs, bufs
<1>3. /\ \A q \in Proc : q # p => pc'[q] = pc[q] /\ cur'[q] = cur[q] /\ held'[q] = held[q]
      /\ pc'[p] = "run" /\ cur'[p] = NoBuf /\ held'[p] = held[p] \union {b}
  BY <1>1, <1>2, Types DEF DiskAwake, Goto
<1>4. OneBuffer' /\ CopyInv' /\ LruInv'
  BY <1>2 DEF IInv, BuffersSound, OneBuffer, Rest, CopyInv, LruInv
<1>5. Counted'
  <2>1. \A c \in Buf : Users(c)' = Users(c)
    BY <1>1, <1>2, <1>3 DEF Users
  <2> QED BY <1>2, <2>1 DEF IInv, BuffersSound, Counted
<1>6. Exclusive'
  BY <1>1, <1>2, <1>3 DEF IInv, BuffersSound, Exclusive
<1>7. Filled'
  BY <1>1, <1>2, <1>3, Types DEF IInv, BuffersSound, Filled
<1>8. Requested'
  <2>1. \A i \in DOMAIN queue : queue[i] # b
    BY <1>2 DEF IInv, Rest, PendInv
  <2> QED BY <1>1, <1>2, <1>3, <2>1 DEF IInv, BuffersSound, Requested
<1>9. NoForgottenSleeper'
  BY <1>2, <1>3 DEF IInv, BuffersSound, NoForgottenSleeper
<1>10. CurInv'
  BY <1>1, <1>2, <1>3 DEF IInv, Rest, CurInv
<1>11. PendInv'
  BY <1>2, <1>3 DEF IInv, Rest, PendInv
<1> QED BY <1>4, <1>5, <1>6, <1>7, <1>8, <1>9, <1>10, <1>11 DEF BuffersSound, Rest

\* One that was woken before its request is done sleeps again, and one that
\* sleeps may be woken: neither changes more than its label.
LEMMA RelabelStep ==
  ASSUME IInv, NEW p \in Proc, cur[p] \in Buf,
         UNCHANGED <<lru, blockno, valid, dirty, refcnt, data, holder, queue, disk, cur, held>>,
         \/ pc[p] = "disk_sleep" /\ pc' = [pc EXCEPT ![p] = "disk_awake"]
         \/ /\ pc[p] = "disk_awake" /\ pc' = [pc EXCEPT ![p] = "disk_sleep"]
            /\ cur[p] \notin valid \ dirty
         \/ pc[p] = "lock_sleep" /\ pc' = [pc EXCEPT ![p] = "lock"]
  PROVE  BuffersSound' /\ Rest'
<1>1. /\ \A q \in Proc : q # p => pc'[q] = pc[q]
      /\ \/ pc[p] = "disk_sleep" /\ pc'[p] = "disk_awake"
         \/ pc[p] = "disk_awake" /\ pc'[p] = "disk_sleep" /\ cur[p] \notin valid \ dirty
         \/ pc[p] = "lock_sleep" /\ pc'[p] = "lock"
  BY Types
<1>2. OneBuffer' /\ CopyInv' /\ LruInv' /\ Counted' /\ Filled'
  BY DEF IInv, BuffersSound, OneBuffer, Counted, Users, Filled, Rest, CopyInv, LruInv
<1>3. Exclusive'
  BY <1>1 DEF IInv, BuffersSound, Exclusive
<1>4. Requested'
  <2>1. \A q \in Proc : pc'[q] = "disk_sleep" => \E i \in DOMAIN queue : queue[i] = cur[q]
    BY <1>1 DEF IInv, BuffersSound, Requested, Rest, PendInv
  <2>2. \A q \in Proc : pc[q] \in {"disk_sleep", "disk_awake"} =>
                            pc'[q] \in {"disk_sleep", "disk_awake"}
    BY <1>1
  <2>3. \A i \in DOMAIN queue : \E q \in Proc :
            pc'[q] \in {"disk_sleep", "disk_awake"} /\ cur[q] = queue[i]
    BY <2>2 DEF IInv, BuffersSound, Requested
  <2> QED BY <2>1, <2>3 DEF IInv, BuffersSound, Requested
<1>5. NoForgottenSleeper'
  BY <1>1 DEF IInv, BuffersSound, NoForgottenSleeper
<1>6. CurInv'
  BY <1>1 DEF IInv, Rest, CurInv
<1>7. PendInv'
  <2>1. pc'[p] = "disk_awake" => \E i \in DOMAIN queue : queue[i] = cur[p]
    BY <1>1 DEF IInv, BuffersSound, Requested
  <2> QED BY <1>1, <2>1 DEF IInv, Rest, PendInv
<1> QED BY <1>2, <1>3, <1>4, <1>5, <1>6, <1>7 DEF BuffersSound, Rest

LEMMA DiskAwakeStep ==
  ASSUME IInv, NEW p \in Proc, DiskAwake(p)
  PROVE  BuffersSound' /\ Rest'
<1>1. CASE cur[p] \in valid \ dirty
  BY <1>1, DoneStep
<1>2. CASE cur[p] \notin valid \ dirty
  <2>1. cur[p] \in Buf /\ cur' = cur
    BY <1>2, WorksOn, Types DEF DiskAwake, Runs, Goto
  <2> QED BY <1>2, <2>1, RelabelStep DEF DiskAwake, Runs, Goto, bufs
<1> QED BY <1>1, <1>2

\* What a process that has a buffer knows of the others.
LEMMA HoldsAlone ==
  ASSUME IInv, NEW p \in Proc, NEW b \in held[p]
  PROVE  /\ b \in Buf /\ holder[b] = p /\ b \in valid /\ blockno[b] # NoBlock
         /\ \A q \in Proc : q # p => b \notin held[q]
         /\ \A q \in Proc : cur[q] = b => pc[q] \in {"lock", "lock_sleep", "brelse"}
<1>1. b \in Buf
  BY WorksOn
<1>2. holder[b] = p
  BY <1>1 DEF IInv, BuffersSound, Exclusive
<1>3. b \in valid /\ blockno[b] # NoBlock
  BY <1>1 DEF IInv, BuffersSound, Filled, Rest, CurInv
<1>4. \A q \in Proc : q # p => b \notin held[q]
  BY <1>1, <1>2 DEF IInv, BuffersSound, Exclusive
<1>5. ASSUME NEW q \in Proc, cur[q] = b PROVE pc[q] \in {"lock", "lock_sleep", "brelse"}
  <2>1. q # p
    BY <1>5, WorksOn
  <2>2. pc[q] \notin {"iderw", "disk_sleep", "disk_awake"}
    BY <1>1, <1>2, <1>5, <2>1 DEF IInv, BuffersSound, Exclusive
  <2>3. pc[q] # "run"
    BY <1>1, <1>5, WorksOn, Types
  <2> QED BY <2>2, <2>3, Types DEF Label
<1> QED BY <1>1, <1>2, <1>3, <1>4, <1>5

LEMMA KillStep ==
  ASSUME IInv, NEW p \in Proc, Kill(p)
  PROVE  BuffersSound' /\ Rest'
<1>1. cur[p] \in Buf
  BY WorksOn DEF Kill
<1> QED BY <1>1, RelabelStep DEF Kill, bufs

LEMMA LogWriteStep ==
  ASSUME IInv, NEW p \in Proc, NEW b \in Buf, NEW v \in Value, LogWrite(p, b, v)
  PROVE  BuffersSound' /\ Rest'
<1>1. /\ b \in held[p] /\ data' = [data EXCEPT ![b] = v] /\ dirty' = dirty \union {b}
      /\ UNCHANGED <<lru, blockno, valid, refcnt, holder, queue, disk, pc, cur, held, panic>>
  BY DEF LogWrite, procs
<1>2. OneBuffer' /\ Counted' /\ LruInv' /\ CurInv'
  BY <1>1 DEF IInv, BuffersSound, OneBuffer, Counted, Users, Rest, LruInv, CurInv
<1>3. Exclusive' /\ Filled' /\ Requested' /\ NoForgottenSleeper'
  BY <1>1 DEF IInv, BuffersSound, Exclusive, Filled, Requested, NoForgottenSleeper
<1>4. CopyInv'
  BY <1>1, HoldsAlone, DataTypes, Types DEF IInv, Rest, CopyInv
<1>5. PendInv'
  BY <1>1, HoldsAlone DEF IInv, Rest, PendInv
<1> QED BY <1>2, <1>3, <1>4, <1>5 DEF BuffersSound, Rest

LEMMA BwriteStep ==
  ASSUME IInv, NEW p \in Proc, NEW b \in Buf, NEW v \in Value, Bwrite(p, b, v)
  PROVE  BuffersSound' /\ Rest'
<1>1. /\ pc[p] = "run" /\ b \in held[p] /\ cur[p] = NoBuf /\ NoBuf \notin Buf
      /\ data' = [data EXCEPT ![b] = v] /\ dirty' = dirty \union {b}
      /\ UNCHANGED <<lru, blockno, valid, refcnt, holder, queue, disk, panic>>
  BY Types, WorksOn DEF Bwrite, Runs
<1>2. /\ \A q \in Proc : q # p => pc'[q] = pc[q] /\ cur'[q] = cur[q] /\ held'[q] = held[q]
      /\ pc'[p] = "iderw" /\ cur'[p] = b /\ held'[p] = held[p] \ {b}
  BY Types DEF Bwrite, Goto
<1>a. /\ holder[b] = p /\ b \in valid
      /\ \A q \in Proc : q # p => b \notin held[q]
      /\ \A q \in Proc : cur[q] = b => pc[q] \in {"lock", "lock_sleep", "brelse"}
  BY <1>1, HoldsAlone
<1>3. OneBuffer' /\ LruInv'
  BY <1>1 DEF IInv, BuffersSound, OneBuffer, Rest, LruInv
<1>4. Counted'
  <2>1. \A c \in Buf : Users(c)' = Users(c)
    BY <1>1, <1>2 DEF Users
  <2> QED BY <1>1, <2>1 DEF IInv, BuffersSound, Counted
<1>5. Exclusive'
  BY <1>1, <1>2, <1>a DEF IInv, BuffersSound, Exclusive
<1>6. Filled'
  BY <1>1, <1>2 DEF IInv, BuffersSound, Filled
<1>7. Requested'
  BY <1>1, <1>2 DEF IInv, BuffersSound, Requested
<1>8. NoForgottenSleeper'
  BY <1>1, <1>2 DEF IInv, BuffersSound, NoForgottenSleeper
<1>9. CurInv'
  BY <1>1, <1>2 DEF IInv, Rest, CurInv
<1>10. CopyInv'
  BY <1>1, <1>a, DataTypes, Types DEF IInv, Rest, CopyInv
<1>11. PendInv'
  BY <1>1, <1>2, <1>a DEF IInv, Rest, PendInv
<1> QED BY <1>3, <1>4, <1>5, <1>6, <1>7, <1>8, <1>9, <1>10, <1>11 DEF BuffersSound, Rest

LEMMA ReleasesleepStep ==
  ASSUME IInv, NEW p \in Proc, NEW b \in Buf, Releasesleep(p, b)
  PROVE  BuffersSound' /\ Rest'
<1>1. /\ pc[p] = "run" /\ b \in held[p] /\ cur[p] = NoBuf /\ NoBuf \notin Buf
      /\ UNCHANGED <<lru, blockno, valid, dirty, refcnt, data, queue, disk, panic>>
  BY Types, WorksOn DEF Releasesleep, Runs, bufs
<1>2. /\ \A q \in Proc : q # p => cur'[q] = cur[q] /\ held'[q] = held[q]
      /\ \A q \in Proc : q # p => pc'[q] = IF pc[q] = "lock_sleep" /\ cur[q] = b
                                           THEN "lock" ELSE pc[q]
      /\ pc'[p] = "brelse" /\ cur'[p] = b /\ held'[p] = held[p] \ {b}
      /\ \A c \in Buf : holder'[c] = IF c = b THEN NoProc ELSE holder[c]
  BY Types DEF Releasesleep
<1>a. /\ holder[b] = p
      /\ \A q \in Proc : q # p => b \notin held[q]
      /\ \A q \in Proc : cur[q] = b => pc[q] \in {"lock", "lock_sleep", "brelse"}
  BY <1>1, HoldsAlone
<1>3. OneBuffer' /\ CopyInv' /\ LruInv'
  BY <1>1 DEF IInv, BuffersSound, OneBuffer, Rest, CopyInv, LruInv
<1>4. Counted'
  <2>1. \A c \in Buf : Users(c)' = Users(c)
    BY <1>1, <1>2 DEF Users
  <2> QED BY <1>1, <2>1 DEF IInv, BuffersSound, Counted
<1>5. Exclusive'
  BY <1>1, <1>2, <1>a, ProcAssumption DEF IInv, BuffersSound, Exclusive
<1>6. Filled'
  BY <1>1, <1>2 DEF IInv, BuffersSound, Filled
<1>7. Requested'
  BY <1>1, <1>2 DEF IInv, BuffersSound, Requested
<1>8. NoForgottenSleeper'
  BY <1>1, <1>2, WorksOn DEF IInv, BuffersSound, NoForgottenSleeper
<1>9. CurInv'
  BY <1>1, <1>2 DEF IInv, Rest, CurInv
<1>10. PendInv'
  BY <1>1, <1>2 DEF IInv, Rest, PendInv
<1> QED BY <1>3, <1>4, <1>5, <1>6, <1>7, <1>8, <1>9, <1>10 DEF BuffersSound, Rest

LEMMA BrelseStep ==
  ASSUME IInv, NEW p \in Proc, Brelse(p)
  PROVE  BuffersSound' /\ Rest'
<1>1. PICK b \in Buf : b = cur[p]
  BY WorksOn DEF Brelse, Runs
<1>2. /\ pc[p] = "brelse" /\ NoBuf \notin Buf /\ b \notin held[p]
      /\ refcnt' = [refcnt EXCEPT ![b] = @ - 1] /\ lru' \in {Moved(b), lru}
      /\ UNCHANGED <<blockno, valid, dirty, data, holder, queue, disk, held, panic>>
  BY <1>1, Types, WorksOn DEF Brelse, Runs
<1>3. /\ \A q \in Proc : q # p => pc'[q] = pc[q] /\ cur'[q] = cur[q]
      /\ pc'[p] = "run" /\ cur'[p] = NoBuf
  BY Types DEF Brelse, Goto
<1>4. OneBuffer' /\ CopyInv'
  BY <1>2 DEF IInv, BuffersSound, OneBuffer, Rest, CopyInv
<1>5. Counted'
  <2>1. Users(b)' = Users(b) \ {p} /\ \A c \in Buf : c # b => Users(c)' = Users(c)
    BY <1>1, <1>2, <1>3 DEF Users
  <2>2. p \in Users(b)
    BY <1>1 DEF Users
  <2> QED BY <1>2, <2>1, <2>2, CountedStep
<1>6. Exclusive'
  BY <1>1, <1>2, <1>3 DEF IInv, BuffersSound, Exclusive
<1>7. Filled'
  BY <1>1, <1>2, <1>3, Types DEF IInv, BuffersSound, Filled
<1>8. Requested'
  BY <1>1, <1>2, <1>3 DEF IInv, BuffersSound, Requested
<1>9. NoForgottenSleeper'
  BY <1>2, <1>3 DEF IInv, BuffersSound, NoForgottenSleeper
<1>10. CurInv'
  BY <1>1, <1>2, <1>3 DEF IInv, Rest, CurInv
<1>11. PendInv'
  BY <1>2, <1>3 DEF IInv, Rest, PendInv
<1>14. LruInv'
  <2>1. TypeOK /\ LruInv
    BY DEF IInv, Rest
  <2>2. \A c \in Buf : \E i \in Buf : Moved(b)[i] = c
    BY <2>1, MovedKeeps
  <2>3. CASE lru' = Moved(b)
    BY <2>2, <2>3 DEF LruInv
  <2>4. CASE lru' = lru
    BY <2>1, <2>4 DEF LruInv
  <2> QED BY <1>2, <2>3, <2>4
<1> QED BY <1>4, <1>5, <1>6, <1>7, <1>8, <1>9, <1>10, <1>11, <1>14 DEF BuffersSound, Rest

\* The request that the disk completes.
LEMMA ActiveRequest ==
  ASSUME IInv, queue # <<>>
  PROVE  /\ Active \in Buf /\ blockno[Active] \in Block /\ Active \notin valid \ dirty
         /\ \E p \in Proc : /\ pc[p] \in {"disk_sleep", "disk_awake"}
                            /\ cur[p] = Active /\ holder[Active] = p
                            /\ \A q \in Proc : q # p /\ cur[q] = Active =>
                                   pc[q] \notin {"iderw", "disk_sleep", "disk_awake"}
<1>1. queue \in Seq(Buf) /\ Active = queue[1] /\ 1 \in DOMAIN queue
  BY Types DEF Active
<1>2. Active \in Buf
  BY <1>1
<1>3. PICK p \in Proc : pc[p] \in {"disk_sleep", "disk_awake"} /\ cur[p] = Active
  BY <1>1 DEF IInv, BuffersSound, Requested
<1>4. Active \notin valid \ dirty
  BY <1>1 DEF IInv, Rest, PendInv
<1>5. blockno[Active] \in Block
  BY <1>2, <1>3, DataTypes DEF IInv, Rest, CurInv
<1>6. holder[Active] = p
  BY <1>2, <1>3 DEF IInv, BuffersSound, Exclusive
<1>7. ASSUME NEW q \in Proc, q # p, cur[q] = Active
      PROVE  pc[q] \notin {"iderw", "disk_sleep", "disk_awake"}
  BY <1>2, <1>6, <1>7 DEF IInv, BuffersSound, Exclusive
<1> QED BY <1>2, <1>3, <1>4, <1>5, <1>6, <1>7

LEMMA IdeintrStep ==
  ASSUME IInv, Ideintr
  PROVE  BuffersSound' /\ Rest'
<1>1. PICK b \in Buf : b = Active
  BY ActiveRequest DEF Ideintr
<1>2. /\ valid' = valid \union {b} /\ dirty' = dirty \ {b} /\ queue' = Tail(queue) /\ queue # <<>>
      /\ UNCHANGED <<lru, blockno, refcnt, holder, cur, held, panic>>
  BY <1>1 DEF Ideintr
<1>3. \/ b \in dirty /\ disk' = [disk EXCEPT ![blockno[b]] = data[b]] /\ data' = data
      \/ b \notin dirty /\ data' = [data EXCEPT ![b] = disk[blockno[b]]] /\ disk' = disk
  BY <1>1 DEF Ideintr
<1>4. PICK p \in Proc : /\ pc[p] \in {"disk_sleep", "disk_awake"} /\ cur[p] = b /\ holder[b] = p
                        /\ \A q \in Proc : q # p /\ cur[q] = b =>
                               pc[q] \notin {"iderw", "disk_sleep", "disk_awake"}
  BY <1>1, <1>2, ActiveRequest
<1>5. \A q \in Proc : pc'[q] = IF q = p THEN "disk_awake" ELSE pc[q]
  <2>1. ASSUME NEW q \in Proc
        PROVE  pc'[q] = IF pc[q] = "disk_sleep" /\ cur[q] = b THEN "disk_awake" ELSE pc[q]
    BY <1>1 DEF Ideintr, Wakeup
  <2> QED BY <1>4, <2>1
<1>6. blockno[b] \in Block /\ b \notin valid \ dirty
  BY <1>1, <1>2, ActiveRequest
<1>7. OneBuffer' /\ LruInv' /\ CurInv' /\ Counted'
  <2>1. CurInv'
    BY <1>2, <1>4, <1>5 DEF IInv, Rest, CurInv
  <2>2. Counted'
    BY <1>2 DEF IInv, BuffersSound, Counted, Users
  <2> QED BY <1>2, <2>1, <2>2 DEF IInv, BuffersSound, OneBuffer, Rest, LruInv
<1>8. Exclusive'
  BY <1>2, <1>4, <1>5 DEF IInv, BuffersSound, Exclusive
<1>9. Filled'
  BY <1>2 DEF IInv, BuffersSound, Filled
<1>10. NoForgottenSleeper'
  BY <1>2, <1>4, <1>5 DEF IInv, BuffersSound, NoForgottenSleeper
<1>11. Requested'
  <2>1. /\ queue \in Seq(Buf) /\ Len(queue) \in Nat /\ DOMAIN queue = 1..Len(queue)
        /\ Len(queue) >= 1 /\ DOMAIN queue' = 1..(Len(queue) - 1) /\ queue[1] = b
        /\ \A i \in 1..(Len(queue) - 1) : queue'[i] = queue[i + 1] /\ i + 1 \in DOMAIN queue
    BY <1>1, <1>2, Types DEF Active
  <2>2. \A i, j \in DOMAIN queue : queue[i] = queue[j] => i = j
    BY DEF IInv, BuffersSound, Requested
  <2>3. ASSUME NEW i \in DOMAIN queue', NEW j \in DOMAIN queue', queue'[i] = queue'[j]
        PROVE  i = j
    <3>1. i + 1 = j + 1
      BY <2>1, <2>2, <2>3
    <3> QED BY <2>1, <3>1
  <2>4. ASSUME NEW q \in Proc, pc'[q] = "disk_sleep"
        PROVE  \E i \in DOMAIN queue' : queue'[i] = cur'[q]
    <3>1. q # p /\ pc[q] = "disk_sleep" /\ cur[q] # b
      BY <1>4, <1>5, <2>4
    <3>2. PICK i \in DOMAIN queue : queue[i] = cur[q]
      BY <3>1 DEF IInv, BuffersSound, Requested
    <3>3. i # 1 /\ i - 1 \in DOMAIN queue' /\ (i - 1) + 1 = i
      BY <2>1, <3>1, <3>2
    <3> QED BY <1>2, <2>1, <3>2, <3>3
  <2>5. ASSUME NEW i \in DOMAIN queue'
        PROVE  \E q \in Proc : /\ pc'[q] \in {"disk_sleep", "disk_awake"}
                              /\ cur'[q] = queue'[i]
    <3>1. i + 1 \in DOMAIN queue /\ queue'[i] = queue[i + 1] /\ i + 1 # 1
      BY <2>1
    <3>2. PICK q \in Proc : pc[q] \in {"disk_sleep", "disk_awake"} /\ cur[q] = queue[i + 1]
      BY <3>1 DEF IInv, BuffersSound, Requested
    <3>3. cur[q] # b
      BY <2>1, <2>2, <3>1, <3>2
    <3> QED BY <1>2, <1>4, <1>5, <3>1, <3>2, <3>3
  <2> QED BY <2>3, <2>4, <2>5 DEF Requested
<1>12. CopyInv'
  <2>1. dirty' \subseteq valid' /\ \A c \in valid' : blockno'[c] # NoBlock
    BY <1>2, <1>6, BlockAssumption DEF IInv, Rest, CopyInv
  <2>2. ASSUME NEW c \in valid' \ dirty' PROVE data'[c] = disk'[blockno'[c]]
    <3>1. CASE c = b
      BY <1>2, <1>3, <1>6, <3>1, DataTypes
    <3>2. CASE c # b
      <4>1. c \in valid \ dirty /\ c \in Buf /\ data[c] = disk[blockno[c]]
        BY <1>2, <2>2, <3>2, Types DEF IInv, Rest, CopyInv
      <4>2. blockno[c] # blockno[b]
        BY <1>6, <3>2, <4>1, BlockAssumption DEF IInv, BuffersSound, OneBuffer
      <4>3. blockno'[c] = blockno[c] /\ data'[c] = data[c]
        BY <1>2, <1>3, <3>2, <4>1, DataTypes
      <4>4. disk'[blockno[c]] = disk[blockno[c]]
        <5>1. blockno[c] \in Block
          BY <4>1, DataTypes DEF IInv, Rest, CopyInv
        <5> QED BY <1>3, <4>2, <5>1, DataTypes
      <4> QED BY <4>1, <4>3, <4>4
    <3> QED BY <3>1, <3>2
  <2> QED BY <2>1, <2>2 DEF CopyInv
<1>13. PendInv'
  <2>1. /\ queue \in Seq(Buf) /\ Len(queue) \in Nat /\ DOMAIN queue = 1..Len(queue)
        /\ Len(queue) >= 1 /\ DOMAIN queue' = 1..(Len(queue) - 1) /\ queue[1] = b
        /\ \A i \in 1..(Len(queue) - 1) : queue'[i] = queue[i + 1] /\ i + 1 \in DOMAIN queue
    BY <1>1, <1>2, Types DEF Active
  <2>2. \A c : c \notin valid \ dirty /\ c # b => c \notin valid' \ dirty'
    BY <1>2
  <2>3. \A q \in Proc : pc'[q] = "iderw" => cur'[q] \notin valid' \ dirty'
    BY <1>2, <1>4, <1>5, <2>2 DEF IInv, Rest, PendInv
  <2>4. ASSUME NEW i \in DOMAIN queue' PROVE queue'[i] \notin valid' \ dirty'
    <3>1. i + 1 \in DOMAIN queue /\ queue'[i] = queue[i + 1] /\ i + 1 # 1 /\ 1 \in DOMAIN queue
      BY <2>1
    <3>2. queue[i + 1] # b
      BY <2>1, <3>1 DEF IInv, BuffersSound, Requested
    <3> QED BY <2>2, <3>1, <3>2 DEF IInv, Rest, PendInv
  <2>5. ASSUME NEW q \in Proc, pc'[q] = "disk_awake", cur'[q] \notin valid' \ dirty'
        PROVE  \E i \in DOMAIN queue' : queue'[i] = cur'[q]
    <3>1. cur[q] # b /\ cur[q] \notin valid \ dirty /\ pc[q] = "disk_awake"
      BY <1>1, <1>2, <1>4, <1>5, <1>6, <2>5
    <3>2. PICK i \in DOMAIN queue : queue[i] = cur[q]
      BY <3>1 DEF IInv, Rest, PendInv
    <3>3. i # 1 /\ i - 1 \in DOMAIN queue' /\ (i - 1) + 1 = i
      BY <2>1, <3>1, <3>2
    <3> QED BY <1>2, <2>1, <3>2, <3>3
  <2> QED BY <2>3, <2>4, <2>5 DEF PendInv
<1> QED BY <1>7, <1>8, <1>9, <1>10, <1>11, <1>12, <1>13 DEF BuffersSound, Rest

(***************************************************************************)
(* IInv is an invariant.                                                   *)
(***************************************************************************)
LEMMA InitInv ==
  ASSUME Init
  PROVE  IInv
<1>1. NoBuf \notin Buf /\ NBUF \in Nat
  BY BufAssumption DEF NoBuf, Buf
<1>2. TypeOK
  <2>1. \A i \in Buf : NBUF + 1 - i \in Buf
    BY <1>1 DEF Buf
  <2>2. lru \in [Buf -> Buf]
    BY <2>1 DEF Init
  <2>3. queue \in Seq(Buf)
    BY DEF Init
  <2> QED BY <2>2, <2>3, BufAssumption DEF Init, TypeOK, Label
<1>3. LruInv
  <2>1. ASSUME NEW b \in Buf PROVE \E i \in Buf : lru[i] = b
    <3>1. NBUF + 1 - b \in Buf /\ NBUF + 1 - (NBUF + 1 - b) = b
      BY <1>1 DEF Buf
    <3> QED BY <3>1 DEF Init
  <2> QED BY <2>1 DEF LruInv
<1>4. OneBuffer /\ Filled /\ Requested /\ NoForgottenSleeper
  BY <1>1 DEF Init, OneBuffer, Filled, Requested, NoForgottenSleeper
<1>5. Exclusive
  BY ProcAssumption DEF Init, Exclusive
<1>6. Counted
  <2>1. \A b \in Buf : Users(b) = {}
    BY <1>1 DEF Init, Users
  <2> QED BY <2>1, FS_EmptySet DEF Init, Counted
<1>7. CurInv /\ CopyInv /\ PendInv
  BY <1>1 DEF Init, CurInv, CopyInv, PendInv
<1>10. PanicOnlyWhenFull
  BY DEF Init, PanicOnlyWhenFull
<1> QED BY <1>2, <1>3, <1>4, <1>5, <1>6, <1>7, <1>10 DEF IInv, BuffersSound, Rest

\* The panic of bget() changes nothing else.
LEMMA NoBuffersStep ==
  ASSUME IInv, NEW p \in Proc, NEW n \in Block, Bget(p, n), NoBuffers(n)
  PROVE  BuffersSound' /\ Rest'
<1>1. UNCHANGED <<lru, blockno, valid, dirty, refcnt, data, holder, queue, disk, pc, cur, held>>
  BY DEF Bget, NoBuffers, bufs
<1>2. OneBuffer' /\ Counted' /\ Exclusive' /\ Filled' /\ Requested' /\ NoForgottenSleeper'
  BY <1>1 DEF IInv, BuffersSound, OneBuffer, Counted, Users, Exclusive, Filled, Requested,
              NoForgottenSleeper
<1>3. CurInv' /\ CopyInv' /\ PendInv' /\ LruInv'
  BY <1>1 DEF IInv, Rest, CurInv, CopyInv, PendInv, LruInv
<1> QED BY <1>2, <1>3 DEF BuffersSound, Rest

\* Only bget() panics, and only when it finds no buffer.
LEMMA PanicStep ==
  ASSUME IInv, Next
  PROVE  PanicOnlyWhenFull'
<1>1. panic = "none"
  BY DEF Next, Ideintr, Bget, Proceed, Lock, Iderw, DiskAwake, Brelse, Use, LogWrite, Bwrite,
         Releasesleep, Kill, Runs
<1>2. CASE UNCHANGED panic
  BY <1>1, <1>2 DEF PanicOnlyWhenFull
<1>3. CASE Ideintr
  BY <1>2, <1>3 DEF Ideintr
<1>4. ASSUME NEW p \in Proc, NEW n \in Block, Bget(p, n) PROVE PanicOnlyWhenFull'
  <2>1. CASE Hit(p, n) \/ Recycle(p, n)
    BY <1>2, <2>1 DEF Hit, Recycle
  <2>2. CASE NoBuffers(n)
    <3>1. Unused = {} /\ panic' = "bget: no buffers"
          /\ UNCHANGED <<dirty, held, cur>>
      BY <1>4, <2>2 DEF Bget, NoBuffers, bufs
    <3>2. ASSUME NEW b \in Buf, b \notin dirty PROVE Users(b)' # {}
      <4>1. refcnt[b] # 0 /\ refcnt[b] = Cardinality(Users(b))
        BY <3>1, <3>2 DEF Unused, IInv, BuffersSound, Counted
      <4> QED BY <3>1, <4>1, FS_EmptySet DEF Users
    <3> QED BY <3>1, <3>2 DEF PanicOnlyWhenFull
  <2> QED BY <1>4, <2>1, <2>2 DEF Bget
<1>5. ASSUME NEW p \in Proc, Proceed(p) PROVE PanicOnlyWhenFull'
  <2>1. CASE Iderw(p)
    <3>1. cur[p] \notin valid \ dirty
      BY <2>1 DEF Iderw, Runs, IInv, Rest, PendInv
    <3> QED BY <1>2, <2>1, <3>1 DEF Iderw
  <2>2. CASE Lock(p) \/ DiskAwake(p) \/ Brelse(p)
    BY <1>2, <2>2 DEF Lock, DiskAwake, Brelse
  <2> QED BY <1>5, <2>1, <2>2 DEF Proceed
<1>6. ASSUME NEW p \in Proc, Use(p) PROVE PanicOnlyWhenFull'
  BY <1>2, <1>6 DEF Use, LogWrite, Bwrite, Releasesleep
<1>7. ASSUME NEW p \in Proc, Kill(p) PROVE PanicOnlyWhenFull'
  BY <1>2, <1>7 DEF Kill
<1> QED BY <1>3, <1>4, <1>5, <1>6, <1>7 DEF Next

LEMMA NextInv ==
  ASSUME IInv, [Next]_vars
  PROVE  IInv'
<1>1. CASE UNCHANGED vars
  <2>1. TypeOK' /\ PanicOnlyWhenFull'
    BY <1>1 DEF IInv, TypeOK, PanicOnlyWhenFull, Users, vars, bufs, procs
  <2>2. OneBuffer' /\ Counted' /\ Exclusive' /\ Filled' /\ Requested' /\ NoForgottenSleeper'
    BY <1>1 DEF IInv, BuffersSound, OneBuffer, Counted, Users, Exclusive, Filled, Requested,
                NoForgottenSleeper, vars, bufs, procs
  <2>3. CurInv' /\ CopyInv' /\ PendInv' /\ LruInv'
    BY <1>1 DEF IInv, Rest, CurInv, CopyInv, PendInv, LruInv,
                vars, bufs, procs
  <2> QED BY <2>1, <2>2, <2>3 DEF IInv, BuffersSound, Rest
<1>2. CASE Next
  <2>1. BuffersSound' /\ Rest'
    <3>1. CASE Ideintr
      BY <3>1, IdeintrStep
    <3>2. ASSUME NEW p \in Proc, NEW n \in Block, Bget(p, n) PROVE BuffersSound' /\ Rest'
      BY <3>2, HitStep, RecycleStep, NoBuffersStep DEF Bget
    <3>3. ASSUME NEW p \in Proc, Proceed(p) PROVE BuffersSound' /\ Rest'
      BY <3>3, LockStep, IderwStep, DiskAwakeStep, BrelseStep DEF Proceed
    <3>4. ASSUME NEW p \in Proc, Use(p) PROVE BuffersSound' /\ Rest'
      BY <3>4, LogWriteStep, BwriteStep, ReleasesleepStep DEF Use
    <3>5. ASSUME NEW p \in Proc, Kill(p) PROVE BuffersSound' /\ Rest'
      BY <3>5, KillStep
    <3> QED BY <1>2, <3>1, <3>2, <3>3, <3>4, <3>5 DEF Next
  <2> QED BY <1>2, <2>1, TypeStep, PanicStep DEF IInv
<1> QED BY <1>1, <1>2

\* Whatever processes read and write, and whenever the disk interrupts, the
\* buffers, their locks, their users and the queue of the disk fit together.
THEOREM InvariantHolds == Spec => []IInv
<1>1. Init => IInv
  BY InitInv
<1>2. IInv /\ [Next]_vars => IInv'
  BY NextInv
<1> QED BY <1>1, <1>2, PTL DEF Spec

\* The variables of the cache and of the driver keep their types.
THEOREM TypeCorrect == Spec => []TypeOK
<1>1. IInv => TypeOK
  BY DEF IInv
<1> QED BY <1>1, InvariantHolds, PTL

\* A block has one buffer, a buffer one holder, counted users and at most one
\* request, and nobody sleeps for a lock that is free (bio.c:57-140, ide.c:104-167).
THEOREM CacheSound == Spec => []BuffersSound
<1>1. IInv => BuffersSound
  BY DEF IInv
<1> QED BY <1>1, InvariantHolds, PTL

\* When bget() gives up, the log has pinned every buffer that no process uses:
\* no reference is lost, and no buffer with it (bio.c:77-91).  iderw() always
\* has something to do (ide.c:143).
THEOREM NoBufferLost == Spec => []PanicOnlyWhenFull
<1>1. IInv => PanicOnlyWhenFull
  BY DEF IInv
<1> QED BY <1>1, InvariantHolds, PTL

(***************************************************************************)
(* The cache implements BlockStore.                                        *)
(***************************************************************************)

\* What the abstract store says of a block, by the buffer that it has or has not.
Mapped(n) ==
  /\ \A b \in Buf : blockno[b] = n => /\ Owner(n) = holder[b]
                                      /\ Contents(n) = IF b \in valid THEN data[b] ELSE disk[n]
  /\ (\A b \in Buf : blockno[b] # n) => Owner(n) = NoProc /\ Contents(n) = disk[n]

LEMMA MappedHolds == TypeOK /\ OneBuffer => \A n \in Block : Mapped(n)
<1> SUFFICES ASSUME TypeOK, OneBuffer, NEW n \in Block PROVE Mapped(n)
  OBVIOUS
<1>1. valid \subseteq Buf
  BY DEF TypeOK
<1>2. ASSUME NEW b \in Buf, blockno[b] = n
      PROVE  Owner(n) = holder[b] /\ Contents(n) = IF b \in valid THEN data[b] ELSE disk[n]
  <2>1. \A c \in Buf : blockno[c] = n => c = b
    BY <1>2, BlockAssumption DEF OneBuffer
  <2>2. Cached(n) = {b}
    BY <1>2, <2>1 DEF Cached
  <2>3. Owner(n) = holder[b]
    BY <2>2 DEF Owner
  <2>4. Contents(n) = IF b \in valid THEN data[b] ELSE disk[n]
    BY <1>1, <1>2, <2>1 DEF Contents
  <2> QED BY <2>3, <2>4
<1>3. ASSUME \A b \in Buf : blockno[b] # n PROVE Owner(n) = NoProc /\ Contents(n) = disk[n]
  BY <1>1, <1>3 DEF Owner, Contents, Cached
<1> QED BY <1>2, <1>3 DEF Mapped

LEMMA MappedHoldsNext == TypeOK' /\ OneBuffer' => \A n \in Block : Mapped(n)'
<1>1. (TypeOK /\ OneBuffer => \A n \in Block : Mapped(n))'
  BY MappedHolds, PTL
<1> QED BY <1>1

LEMMA MappedBoth ==
  ASSUME IInv, [Next]_vars, NEW n \in Block
  PROVE  Mapped(n) /\ Mapped(n)'
BY NextInv, MappedHolds, MappedHoldsNext DEF IInv, BuffersSound

\* A step that leaves every buffer with its block is seen by what it does to
\* the holder and to the contents of that block.
LEMMA MappedSame ==
  ASSUME IInv, [Next]_vars, blockno' = blockno, NEW n \in Block
  PROVE  /\ \A b \in Buf : blockno[b] = n =>
                /\ Owner(n) = holder[b] /\ Owner(n)' = holder'[b]
                /\ Contents(n) = IF b \in valid THEN data[b] ELSE disk[n]
                /\ Contents(n)' = IF b \in valid' THEN data'[b] ELSE disk'[n]
         /\ (\A b \in Buf : blockno[b] # n) =>
                /\ Owner(n) = NoProc /\ Owner(n)' = NoProc
                /\ Contents(n) = disk[n] /\ Contents(n)' = disk'[n]
BY MappedBoth DEF Mapped

Mem   == [n \in Block |-> Contents(n)]
Own   == [n \in Block |-> Owner(n)]
AbstractStep == [Abstract!Next]_<<Mem, Own>>

\* Steps that callers cannot see.
LEMMA Hidden ==
  ASSUME \A n \in Block : Contents(n)' = Contents(n) /\ Owner(n)' = Owner(n)
  PROVE  AbstractStep
<1>1. Mem' = Mem /\ Own' = Own
  BY DEF Mem, Own
<1> QED BY <1>1 DEF AbstractStep

LEMMA HiddenSame ==
  ASSUME UNCHANGED <<blockno, valid, data, holder, disk>>
  PROVE  AbstractStep
<1>1. \A n \in Block : Contents(n)' = Contents(n) /\ Owner(n)' = Owner(n)
  BY DEF Contents, Owner, Cached
<1> QED BY <1>1, Hidden

\* A clean buffer that nobody uses holds what the disk holds.
LEMMA RecycleHidden ==
  ASSUME IInv, [Next]_vars, NEW p \in Proc, NEW n \in Block, Bget(p, n), Recycle(p, n)
  PROVE  AbstractStep
<1>1. PICK b \in Buf : b = Last(Unused) /\ b \notin dirty /\ holder[b] = NoProc
  BY RecycleBuffer DEF Recycle
<1>2. /\ \A c \in Buf : blockno'[c] = IF c = b THEN n ELSE blockno[c]
      /\ \A c \in Buf : blockno[c] # n
      /\ valid' = valid \ {b} /\ UNCHANGED <<data, holder, disk>>
  BY <1>1, DataTypes DEF Bget, Recycle, Cached
<1>3. ASSUME NEW m \in Block PROVE Contents(m)' = Contents(m) /\ Owner(m)' = Owner(m)
  <2>1. Mapped(m) /\ Mapped(m)'
    BY MappedBoth
  <2>2. CASE m = n
    <3>1. Owner(m) = NoProc /\ Contents(m) = disk[m]
      BY <1>2, <2>1, <2>2 DEF Mapped
    <3>2. Owner(m)' = holder[b] /\ Contents(m)' = disk[m]
      BY <1>2, <2>1, <2>2 DEF Mapped
    <3> QED BY <1>1, <3>1, <3>2
  <2>3. CASE m # n /\ m = blockno[b]
    <3>1. \A c \in Buf : blockno'[c] # m
      BY <1>2, <2>3, BlockAssumption DEF IInv, BuffersSound, OneBuffer
    <3>2. Owner(m)' = NoProc /\ Contents(m)' = disk[m]
      BY <1>2, <2>1, <3>1 DEF Mapped
    <3>3. Owner(m) = NoProc /\ Contents(m) = IF b \in valid THEN data[b] ELSE disk[m]
      BY <1>1, <2>1, <2>3 DEF Mapped
    <3>4. b \in valid => data[b] = disk[m]
      BY <1>1, <2>3 DEF IInv, Rest, CopyInv
    <3> QED BY <3>2, <3>3, <3>4
  <2>4. CASE m # n /\ m # blockno[b]
    BY <1>2, <2>1, <2>4 DEF Mapped
  <2> QED BY <2>2, <2>3, <2>4
<1> QED BY <1>3, Hidden

\* The interrupt moves a block between its buffer and the disk.
LEMMA IdeintrHidden ==
  ASSUME IInv, [Next]_vars, Ideintr
  PROVE  AbstractStep
<1>1. PICK b \in Buf : /\ b = Active /\ blockno[b] \in Block /\ b \notin valid \ dirty
  BY ActiveRequest DEF Ideintr
<1>2. valid' = valid \union {b} /\ UNCHANGED <<blockno, holder>>
  BY <1>1 DEF Ideintr
<1>3. \/ b \in dirty /\ disk' = [disk EXCEPT ![blockno[b]] = data[b]] /\ data' = data
      \/ b \notin dirty /\ data' = [data EXCEPT ![b] = disk[blockno[b]]] /\ disk' = disk
  BY <1>1 DEF Ideintr
<1>4. b \in dirty => b \in valid
  BY DEF IInv, Rest, CopyInv
<1>5. ASSUME NEW n \in Block PROVE Contents(n)' = Contents(n) /\ Owner(n)' = Owner(n)
  <2>1. CASE blockno[b] = n
    <3>1. /\ Owner(n) = holder[b] /\ Owner(n)' = holder[b]
          /\ Contents(n) = (IF b \in valid THEN data[b] ELSE disk[n]) /\ Contents(n)' = data'[b]
      BY <1>2, <2>1, MappedSame
    <3>2. data'[b] = IF b \in valid THEN data[b] ELSE disk[n]
      BY <1>1, <1>3, <1>4, <2>1, DataTypes
    <3> QED BY <3>1, <3>2
  <2>2. CASE blockno[b] # n
    <3>1. disk'[n] = disk[n] /\ \A c \in Buf : c # b => data'[c] = data[c]
      BY <1>3, <2>2, DataTypes
    <3>2. CASE \A c \in Buf : blockno[c] # n
      BY <1>2, <3>1, <3>2, MappedSame
    <3>3. ASSUME NEW c \in Buf, blockno[c] = n
          PROVE  Contents(n)' = Contents(n) /\ Owner(n)' = Owner(n)
      <4>1. c # b /\ (c \in valid' <=> c \in valid)
        BY <1>2, <2>2, <3>3
      <4> QED BY <1>2, <3>1, <3>3, <4>1, MappedSame
    <3> QED BY <3>2, <3>3
  <2> QED BY <2>1, <2>2
<1> QED BY <1>5, Hidden

\* Whoever gets the lock of a buffer takes its block.
LEMMA LockTakes ==
  ASSUME IInv, [Next]_vars, NEW p \in Proc, Lock(p)
  PROVE  AbstractStep
<1>1. PICK b \in Buf : b = cur[p]
  BY WorksOn DEF Lock, Runs
<1>2. UNCHANGED <<blockno, valid, data, disk>>
  BY DEF Lock, bufs
<1>3. CASE UNCHANGED holder
  BY <1>2, <1>3, HiddenSame
<1>4. CASE holder[b] = NoProc /\ holder' = [holder EXCEPT ![b] = p]
  <2>1. PICK n \in Block : n = blockno[b]
    BY <1>1, DataTypes DEF IInv, Rest, CurInv
  <2>2. Mem' = Mem
    <3>1. \A m \in Block : Contents(m)' = Contents(m)
      BY <1>2 DEF Contents
    <3> QED BY <3>1 DEF Mem
  <2>3. Own[n] = NoProc /\ \A m \in Block : Own'[m] = IF m = n THEN p ELSE Own[m]
    <3>1. Owner(n) = NoProc /\ Owner(n)' = p
      BY <1>2, <1>4, <2>1, MappedSame, Types
    <3>2. ASSUME NEW m \in Block, m # n PROVE Owner(m)' = Owner(m)
      <4>1. CASE \A c \in Buf : blockno[c] # m
        BY <1>2, <4>1, MappedSame
      <4>2. ASSUME NEW c \in Buf, blockno[c] = m PROVE Owner(m)' = Owner(m)
        BY <1>2, <1>4, <2>1, <3>2, <4>2, MappedSame, Types
      <4> QED BY <4>1, <4>2
    <3> QED BY <3>1, <3>2 DEF Own
  <2>4. Own' = [Own EXCEPT ![n] = p]
    BY <2>3 DEF Own
  <2>5. Abstract!Take(p, n)
    BY <2>2, <2>3, <2>4 DEF Abstract!Take, Mem, Own
  <2> QED BY <2>5 DEF AbstractStep, Abstract!Next
<1> QED BY <1>1, <1>3, <1>4 DEF Lock

\* Whoever has a buffer changes its own block only.
LEMMA ChangeWrites ==
  ASSUME IInv, [Next]_vars, NEW p \in Proc, NEW b \in Buf, NEW v \in Value,
         b \in held[p], data' = [data EXCEPT ![b] = v],
         UNCHANGED <<blockno, valid, holder, disk>>
  PROVE  AbstractStep
<1>1. holder[b] = p /\ b \in valid
  BY HoldsAlone
<1>2. PICK n \in Block : n = blockno[b]
  BY HoldsAlone, DataTypes
<1>3. Own' = Own
  <2>1. \A m \in Block : Owner(m)' = Owner(m)
    BY DEF Owner, Cached
  <2> QED BY <2>1 DEF Own
<1>4. Owner(n) = p /\ Contents(n)' = v
  BY <1>1, <1>2, MappedSame, DataTypes
<1>5. ASSUME NEW m \in Block, m # n PROVE Contents(m)' = Contents(m)
  <2>1. CASE \A c \in Buf : blockno[c] # m
    BY <2>1, MappedSame
  <2>2. ASSUME NEW c \in Buf, blockno[c] = m PROVE Contents(m)' = Contents(m)
    <3>1. data'[c] = data[c]
      BY <1>2, <1>5, <2>2, DataTypes
    <3> QED BY <2>2, <3>1, MappedSame
  <2> QED BY <2>1, <2>2
<1>6. Mem' = [Mem EXCEPT ![n] = v]
  BY <1>4, <1>5 DEF Mem
<1>7. Abstract!Write(p, n, v)
  BY <1>3, <1>4, <1>6 DEF Abstract!Write, Mem, Own
<1> QED BY <1>7 DEF AbstractStep, Abstract!Next

\* brelse() gives the block back when it releases the lock.
LEMMA ReleaseGives ==
  ASSUME IInv, [Next]_vars, NEW p \in Proc, NEW b \in Buf, Releasesleep(p, b)
  PROVE  AbstractStep
<1>1. /\ b \in held[p] /\ holder' = [holder EXCEPT ![b] = NoProc]
      /\ UNCHANGED <<blockno, valid, data, disk>>
  BY DEF Releasesleep, bufs
<1>2. holder[b] = p
  BY <1>1, HoldsAlone
<1>3. PICK n \in Block : n = blockno[b]
  BY <1>1, HoldsAlone, DataTypes
<1>4. Mem' = Mem
  <2>1. \A m \in Block : Contents(m)' = Contents(m)
    BY <1>1 DEF Contents
  <2> QED BY <2>1 DEF Mem
<1>5. Owner(n) = p /\ Owner(n)' = NoProc
  BY <1>1, <1>2, <1>3, MappedSame, Types
<1>6. ASSUME NEW m \in Block, m # n PROVE Owner(m)' = Owner(m)
  <2>1. CASE \A c \in Buf : blockno[c] # m
    BY <1>1, <2>1, MappedSame
  <2>2. ASSUME NEW c \in Buf, blockno[c] = m PROVE Owner(m)' = Owner(m)
    BY <1>1, <1>3, <1>6, <2>2, MappedSame, Types
  <2> QED BY <2>1, <2>2
<1>7. Own' = [Own EXCEPT ![n] = NoProc]
  BY <1>5, <1>6 DEF Own
<1>8. Abstract!Give(p, n)
  BY <1>4, <1>5, <1>7 DEF Abstract!Give, Mem, Own
<1> QED BY <1>8 DEF AbstractStep, Abstract!Next

LEMMA StepImplements ==
  ASSUME IInv, [Next]_vars
  PROVE  AbstractStep
<1>1. CASE UNCHANGED vars
  BY <1>1, HiddenSame DEF vars, bufs
<1>2. CASE Next
  <2>1. CASE Ideintr
    BY <2>1, IdeintrHidden
  <2>2. ASSUME NEW p \in Proc, NEW n \in Block, Bget(p, n) PROVE AbstractStep
    <3>1. CASE Recycle(p, n)
      BY <2>2, <3>1, RecycleHidden
    <3>2. CASE Hit(p, n) \/ NoBuffers(n)
      <4>1. UNCHANGED <<blockno, valid, data, holder, disk>>
        BY <2>2, <3>2 DEF Bget, Hit, NoBuffers, bufs
      <4> QED BY <4>1, HiddenSame
    <3> QED BY <2>2, <3>1, <3>2 DEF Bget
  <2>3. ASSUME NEW p \in Proc, Proceed(p) PROVE AbstractStep
    <3>1. CASE Lock(p)
      BY <3>1, LockTakes
    <3>2. CASE Iderw(p) \/ DiskAwake(p) \/ Brelse(p)
      <4>1. UNCHANGED <<blockno, valid, data, holder, disk>>
        BY <3>2 DEF Iderw, DiskAwake, Brelse, bufs
      <4> QED BY <4>1, HiddenSame
    <3> QED BY <2>3, <3>1, <3>2 DEF Proceed
  <2>4. ASSUME NEW p \in Proc, Use(p) PROVE AbstractStep
    <3>1. PICK b \in Buf : \/ \E v \in Value : LogWrite(p, b, v) \/ Bwrite(p, b, v)
                           \/ Releasesleep(p, b)
      BY <2>4 DEF Use
    <3>2. ASSUME NEW v \in Value, LogWrite(p, b, v) \/ Bwrite(p, b, v) PROVE AbstractStep
      <4>1. /\ b \in held[p] /\ data' = [data EXCEPT ![b] = v]
            /\ UNCHANGED <<blockno, valid, holder, disk>>
        BY <3>2 DEF LogWrite, Bwrite
      <4> QED BY <4>1, ChangeWrites
    <3>3. CASE Releasesleep(p, b)
      BY <3>3, ReleaseGives
    <3> QED BY <3>1, <3>2, <3>3
  <2>5. ASSUME NEW p \in Proc, Kill(p) PROVE AbstractStep
    BY <2>5, HiddenSame DEF Kill, bufs
  <2> QED BY <1>2, <2>1, <2>2, <2>3, <2>4, <2>5 DEF Next
<1> QED BY <1>1, <1>2

LEMMA InitImplements ==
  ASSUME Init
  PROVE  Abstract!Init
<1>1. TypeOK /\ OneBuffer
  BY InitInv DEF IInv, BuffersSound
<1>2. ASSUME NEW n \in Block PROVE Owner(n) = NoProc /\ Contents(n) \in Value
  <2>1. \A b \in Buf : blockno[b] # n
    BY BlockAssumption DEF Init
  <2>2. Owner(n) = NoProc /\ Contents(n) = disk[n]
    BY <1>1, <2>1, MappedHolds DEF Mapped
  <2> QED BY <1>1, <2>2 DEF TypeOK
<1> QED BY <1>2 DEF Abstract!Init

\* For callers the cache is a store in which one process at a time has a
\* block: recycling, write-back and the interrupts are invisible (bio.c:60-140).
THEOREM CacheImplementsStore == Spec => ImplementsBlockStore
<1>1. Init => Abstract!Init
  BY InitImplements
<1>2. IInv /\ [Next]_vars =>
        [Abstract!Next]_<<[n \in Block |-> Contents(n)], [n \in Block |-> Owner(n)]>>
  BY StepImplements DEF AbstractStep, Mem, Own
<1> QED BY <1>1, <1>2, InvariantHolds, PTL DEF Spec, ImplementsBlockStore, Abstract!Spec
=============================================================================
