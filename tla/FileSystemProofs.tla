-------------------------- MODULE FileSystemProofs --------------------------
(***************************************************************************)
(* Proofs about FileSystem for every number of processes, inodes, blocks   *)
(* and names, and for paths of any length: locks and references are given  *)
(* back, no inode in use is freed, and the image on disk is sound.         *)
(***************************************************************************)
EXTENDS FileSystem, FiniteSetTheorems, WellFoundedInduction, TLAPS

(***************************************************************************)
(* The invariant: types.                                                   *)
(***************************************************************************)

Maybe    == Inum \union {0}
PutPlace == {"put", "put_free", "put_drop"}
Label    == PutPlace \union
            {"user", "walk", "open", "create", "exists", "created", "write_link", "unlink",
             "unlink_ip", "unlink_bad", "unlink_drop", "link", "link_dir", "link_dup",
             "link_done", "link_bad"}
Maker    == {"creat", "mkdir", "symlink"}
Walker   == Maker \union {"open", "opensym", "unlink", "link", "link2"}
Arg      == {c.arg : c \in Menu} \union Path \union {<<>>}

Inode   == [type : {"free", "dir", "file", "sym"}, nlink : Nat, size : {0, 1},
            addr : Block \union {0}]
Entry   == [name : Name \union {NoName}, inum : Maybe]
Content == [self : Maybe, up : Maybe, slot : [Slot -> Entry], target : Seq(Name)]
Local   == [op : Walker \union {"none", "write"}, path : Seq(Name), arg : Arg, ip : Maybe,
            dp : Maybe, old : Maybe, put : Maybe, after : Label]

TypeInv == /\ dinode \in [Inum -> Inode] /\ core \in [Inum -> Inode] /\ valid \subseteq Inum
           /\ ref \in [Inum -> Nat] /\ holder \in [Inum -> Proc \union {NoProc}]
           /\ bitmap \subseteq Block /\ block \in [Block -> Content]
           /\ ofile \in [Proc -> Maybe] /\ pc \in [Proc -> Label] /\ loc \in [Proc -> Local]

(***************************************************************************)
(* What a call in progress holds.                                          *)
(***************************************************************************)

\* The inodes and the arguments that a call has at each place.
Place(p) ==
  LET l == loc[p]  L == At(p)
  IN  /\ pc[p] \in PutPlace <=> l.put # 0
      /\ L \notin PutPlace
      /\ l.ip # 0 <=> L \in {"walk", "open", "link", "exists", "created", "unlink_ip",
                            "unlink_drop"}
      /\ l.dp # 0 <=> L \in {"create", "unlink", "unlink_ip", "unlink_bad", "link_dir", "link_dup"}
      /\ l.old # 0 <=> \/ L \in {"link_dir", "link_dup", "link_done", "link_bad"}
                       \/ L = "walk" /\ l.op = "link2"
      /\ L = "walk" => l.op \in Walker
      /\ L = "open" => l.op \in {"open", "opensym"}
      /\ L \in {"create", "exists", "created"} => l.op \in Maker
      /\ L = "link" => l.op = "link"
      /\ L \in {"walk", "create", "unlink", "unlink_ip", "link_dir"} => l.path # <<>>
      /\ L = "write_link" => pc[p] = L /\ l.op = "write" /\ ofile[p] # 0
      /\ l.op \in {"symlink", "link", "write"} => l.arg \in Path
PlaceInv == \A p \in Proc : Place(p)

Alive(i) == dinode[i].type # "free"

\* The symbolic link that p has made and not yet written.
Fresh(p) == IF At(p) = "created" /\ loc[p].op = "symlink" THEN loc[p].ip
            ELSE IF pc[p] = "write_link" THEN ofile[p] ELSE 0
FreshInv == \A p, q \in Proc : Fresh(p) # 0 /\ Fresh(p) = Fresh(q) => p = q

\* What a call refers to is not freed.
HeldRefs(p) ==
  LET l == loc[p]
  IN  /\ ofile[p] # 0 => Alive(ofile[p])
      /\ l.ip # 0 => Alive(l.ip)
      /\ l.dp # 0 => dinode[l.dp].type = "dir"
      /\ l.old # 0 => dinode[l.old].type \in {"file", "sym"}
      /\ l.put # 0 /\ pc[p] # "put_drop" => Alive(l.put)

\* An inode that a call has made is as it was made.
HeldMade(p) == /\ At(p) = "created" => dinode[loc[p].ip].type = Type(loc[p].op)
               /\ Fresh(p) # 0 => dinode[Fresh(p)].type = "sym" /\ dinode[Fresh(p)].addr = 0

\* What a call has seen under a lock that it still holds is so.
HeldFree(p) == pc[p] = "put_free" => ref[loc[p].put] = 1 /\ dinode[loc[p].put].nlink = 0
HeldName(p) == At(p) = "unlink_ip" =>
                 \E k \in Slot : LET e == block[dinode[loc[p].dp].addr].slot[k]
                                 IN  e.name = Head(loc[p].path) /\ e.inum = loc[p].ip

Held(p) == HeldRefs(p) /\ HeldMade(p) /\ HeldFree(p) /\ HeldName(p)
HeldInv == \A p \in Proc : Held(p)

\* The references that nobody can give back any more.
Slack(i) == ref[i] - Cardinality(Holds(i))
RefInv   == \A i \in Inum : /\ Slack(i) >= 0
                            /\ Slack(i) > 0 => \/ dinode[i].type = "sym"
                                               \/ \E p \in Proc : Lost(i, p)

CacheInv  == \A i \in valid : core[i] = dinode[i]
LoadedInv == \A p \in Proc : Locked(p) \subseteq valid

CallInv == PlaceInv /\ HeldInv /\ FreshInv /\ LocksMatch /\ RefInv /\ CacheInv /\ LoadedInv

(***************************************************************************)
(* What is on the disk.                                                    *)
(***************************************************************************)

Target(i) == block[dinode[i].addr].target
DiskInv ==
  /\ \A i \in Inum : ~Alive(i) => dinode[i].nlink = 0 /\ dinode[i].addr = 0
  /\ \A i \in Inum : dinode[i].size = IF dinode[i].addr = 0 THEN 0 ELSE 1
  /\ \A i \in Inum : dinode[i].type = "dir" =>
         dinode[i].addr # 0 /\ block[dinode[i].addr].self = i
  /\ \A i, j \in Inum : dinode[i].addr = dinode[j].addr /\ dinode[i].addr # 0 => i = j
  /\ bitmap = {dinode[i].addr : i \in Inum} \ {0}
  /\ \A i \in Inum : dinode[i].type = "sym" /\ dinode[i].addr # 0 => Target(i) \in Path
  /\ dinode[RootInum].type = "dir" /\ block[dinode[RootInum].addr].up = RootInum

\* No directory has a name twice, and none is in two directories.
DirInv ==
  /\ \A d \in Dirs, j, k \in Slot :
       LET slot == block[dinode[d].addr].slot
       IN  slot[j].inum # 0 =>
             /\ slot[j].name \in Name
             /\ slot[k].inum # 0 /\ slot[j].name = slot[k].name => j = k
  /\ Names(RootInum) = {}
  /\ \A i \in Dirs : \A e \in Names(i) : Names(i) = {e} /\ block[dinode[i].addr].up = e[1]

\* The calls for which i is counted without an entry: a link() before it writes
\* its entry, and an unlink() after it has cleared its own.
Pending(i) == {p \in Proc : \/ loc[p].old = i /\ At(p) # "link_done"
                            \/ loc[p].ip = i /\ At(p) = "unlink_drop"}
Subs(i) == IF i \in Dirs THEN Subdirs(i) ELSE {}
Base(i) == IF i = RootInum THEN 1 ELSE 0
Due(i)  == Cardinality(Names(i)) + Cardinality(Subs(i)) + Cardinality(Pending(i)) + Base(i)
LinkInv == \A i \in Inum : Due(i) <= dinode[i].nlink

IInv == TypeInv /\ CallInv /\ DiskInv /\ DirInv /\ LinkInv /\ NoPanic

(***************************************************************************)
(* Inodes, blocks and slots.                                               *)
(***************************************************************************)

LEMMA Numbers == /\ Inum \subseteq Nat /\ 0 \notin Inum /\ RootInum \in Inum /\ IsFiniteSet(Inum)
                 /\ Block \subseteq Nat /\ 0 \notin Block /\ RootInode.addr \in Block
                 /\ Slot \subseteq Nat /\ IsFiniteSet(Slot)
                 /\ Cardinality(Slot) = Cardinality(Name) /\ Cardinality(Name) \in Nat
<1>1. IsFiniteSet(Name) /\ Cardinality(Name) \in Nat
  BY ImageAssumption, FS_CardinalityType
<1>2. IsFiniteSet(Slot) /\ Cardinality(Slot) = Cardinality(Name)
  BY <1>1, FS_Interval DEF Slot
<1>3. IsFiniteSet(Inum)
  BY ImageAssumption, FS_Interval DEF Inum
<1> QED BY <1>1, <1>2, <1>3, ImageAssumption DEF Inum, Block, Slot, RootInum, RootInode

\* Sets of numbers have a least member.
LEMMA MinIn ==
  ASSUME NEW S, S \subseteq Nat, S # {}
  PROVE  Min(S) \in S
<1> DEFINE R == {ss \in Nat \X Nat : ss[1] < ss[2]}
<1>1. IsWellFoundedOn(R, Nat)
  BY NatLessThanWellFounded DEF OpToRel
<1>2. PICK x \in S : \A y \in S : ~(<<y, x>> \in R)
  <2> HIDE DEF R
  <2> QED BY <1>1, WFMin
<1>3. ASSUME NEW y \in S PROVE x <= y
  <2>1. x \in Nat /\ y \in Nat
    OBVIOUS
  <2>2. ~(y < x)
    BY <1>2, <2>1
  <2> QED BY <2>1, <2>2
<1> QED BY <1>3 DEF Min

\* Where a copy is in the cache, it is what is on disk.
LEMMA Current == TypeInv /\ CacheInv => \A i \in Inum : Loaded(i) = dinode[i]
BY DEF TypeInv, CacheInv, Loaded

(***************************************************************************)
(* References: those of one process, and those of the others.              *)
(***************************************************************************)

Field == {"file", "ip", "dp", "old", "put"}
Bit(b) == IF b THEN 1 ELSE 0
Own(p, x) == Bit(ofile[p] = x) + Bit(loc[p].ip = x) + Bit(loc[p].dp = x)
             + Bit(loc[p].old = x) + Bit(loc[p].put = x)
Others(p, x) == {r \in Proc \X Field : r[1] # p /\ Refers(r[1], r[2]) = x}

LEMMA AddIf ==
  ASSUME NEW T, IsFiniteSet(T), NEW e, e \notin T, NEW b \in BOOLEAN
  PROVE  LET U == IF b THEN T \union {e} ELSE T
         IN  IsFiniteSet(U) /\ Cardinality(U) = Cardinality(T) + Bit(b)
<1>1. Cardinality(T) \in Nat
  BY FS_CardinalityType
<1>2. CASE b
  BY <1>1, <1>2, FS_AddElement DEF Bit
<1>3. CASE ~b
  BY <1>1, <1>3 DEF Bit
<1> QED BY <1>2, <1>3

LEMMA RefsFinite ==
  ASSUME NEW x
  PROVE  IsFiniteSet(Holds(x)) /\ Cardinality(Holds(x)) \in Nat
<1>1. IsFiniteSet(Field)
  <2>1. Field = {"file"} \union {"ip"} \union {"dp"} \union {"old"} \union {"put"}
    BY DEF Field
  <2> QED BY <2>1, FS_Singleton, FS_Union
<1>2. IsFiniteSet(Proc \X Field)
  BY <1>1, ProcAssumption, FS_Product
<1>3. Holds(x) \subseteq Proc \X Field
  BY DEF Holds, Field
<1> QED BY <1>2, <1>3, FS_Subset, FS_CardinalityType

LEMMA RefsSplit ==
  ASSUME NEW p \in Proc, NEW x
  PROVE  /\ IsFiniteSet(Others(p, x)) /\ Cardinality(Others(p, x)) \in Nat
         /\ Cardinality(Holds(x)) = Cardinality(Others(p, x)) + Own(p, x)
<1>1. IsFiniteSet(Others(p, x)) /\ Cardinality(Others(p, x)) \in Nat
  <2>1. Others(p, x) \subseteq Holds(x)
    BY DEF Others, Holds, Field
  <2> QED BY <2>1, RefsFinite, FS_Subset, FS_CardinalityType
<1> DEFINE A(T, by) == IF Refers(p, by) = x THEN T \union {<<p, by>>} ELSE T
           T1 == A(Others(p, x), "file")  T2 == A(T1, "ip")  T3 == A(T2, "dp")
           T4 == A(T3, "old")  T5 == A(T4, "put")
<1>2. /\ <<p, "file">> \notin Others(p, x) /\ <<p, "ip">> \notin T1 /\ <<p, "dp">> \notin T2
      /\ <<p, "old">> \notin T3 /\ <<p, "put">> \notin T4
  BY DEF Others
<1>3. Holds(x) = T5
  BY DEF Holds, Others, Field
<1>4. IsFiniteSet(T1) /\ Cardinality(T1) = Cardinality(Others(p, x)) + Bit(Refers(p, "file") = x)
  BY <1>1, <1>2, AddIf
<1>5. IsFiniteSet(T2) /\ Cardinality(T2) = Cardinality(T1) + Bit(Refers(p, "ip") = x)
  <2> HIDE DEF T1
  <2> QED BY <1>2, <1>4, AddIf
<1>6. IsFiniteSet(T3) /\ Cardinality(T3) = Cardinality(T2) + Bit(Refers(p, "dp") = x)
  <2> HIDE DEF T2
  <2> QED BY <1>2, <1>5, AddIf
<1>7. IsFiniteSet(T4) /\ Cardinality(T4) = Cardinality(T3) + Bit(Refers(p, "old") = x)
  <2> HIDE DEF T3
  <2> QED BY <1>2, <1>6, AddIf
<1>8. IsFiniteSet(T5) /\ Cardinality(T5) = Cardinality(T4) + Bit(Refers(p, "put") = x)
  <2> HIDE DEF T4
  <2> QED BY <1>2, <1>7, AddIf
<1>9. Cardinality(T5) = Cardinality(Others(p, x)) + Own(p, x)
  <2> HIDE DEF T1, T2, T3, T4, T5
  <2> QED BY <1>1, <1>4, <1>5, <1>6, <1>7, <1>8 DEF Own, Refers, Bit
<1> QED BY <1>1, <1>3, <1>9

LEMMA RefsSum == \A p \in Proc, x \in Inum :
                   /\ Cardinality(Others(p, x)) \in Nat
                   /\ Cardinality(Holds(x)) = Cardinality(Others(p, x)) + Own(p, x)
BY RefsSplit

LEMMA RefsSumNext == \A p \in Proc, x \in Inum :
                       /\ Cardinality(Others(p, x))' \in Nat
                       /\ Cardinality(Holds(x))' = Cardinality(Others(p, x))' + Own(p, x)'
<1>1. (\A p \in Proc, x \in Inum :
         /\ Cardinality(Others(p, x)) \in Nat
         /\ Cardinality(Holds(x)) = Cardinality(Others(p, x)) + Own(p, x))'
  BY RefsSum, PTL
<1> QED BY <1>1

(***************************************************************************)
(* Steps of one process.                                                   *)
(***************************************************************************)

\* Only the call and the descriptor of p change.
Moves(p) == \A q \in Proc \ {p} : pc'[q] = pc[q] /\ loc'[q] = loc[q] /\ ofile'[q] = ofile[q]

LEMMA SlackStep ==
  ASSUME TypeInv, TypeInv', NEW p \in Proc, NEW x \in Inum, Moves(p)
  PROVE  Slack(x)' = Slack(x) + (ref'[x] - Own(p, x)') - (ref[x] - Own(p, x))
<1>1. Others(p, x)' = Others(p, x)
  BY DEF Others, Moves, Refers
<1>2. /\ Cardinality(Holds(x)) = Cardinality(Others(p, x)) + Own(p, x)
      /\ Cardinality(Holds(x))' = Cardinality(Others(p, x)) + Own(p, x)'
      /\ Cardinality(Others(p, x)) \in Nat
  BY <1>1, RefsSum, RefsSumNext
<1>3. ref[x] \in Nat /\ ref'[x] \in Nat
  BY DEF TypeInv
<1> QED BY <1>2, <1>3 DEF Slack, Own, Bit

\* What p refers to is counted; if the count is one, nobody else refers to it.
LEMMA Counted ==
  ASSUME TypeInv, RefInv, NEW p \in Proc, NEW x \in Inum
  PROVE  /\ ref[x] >= Own(p, x)
         /\ Slack(x) <= ref[x] - Own(p, x)
         /\ \A q \in Proc \ {p} : Own(q, x) > 0 => ref[x] > Own(p, x)
<1>1. /\ Cardinality(Holds(x)) = Cardinality(Others(p, x)) + Own(p, x)
      /\ Cardinality(Others(p, x)) \in Nat
  BY RefsSum
<1>2. ref[x] \in Nat /\ Slack(x) >= 0
  BY DEF TypeInv, RefInv
<1>3. ref[x] >= Cardinality(Others(p, x)) + Own(p, x)
  BY <1>1, <1>2 DEF Slack, Own, Bit
<1>4. ASSUME NEW q \in Proc \ {p}, Own(q, x) > 0 PROVE Cardinality(Others(p, x)) > 0
  <2>1. PICK by \in Field : Refers(q, by) = x
    BY <1>4 DEF Own, Bit, Field, Refers
  <2>2. <<q, by>> \in Others(p, x)
    BY <2>1 DEF Others
  <2> QED BY <2>2, RefsSplit, FS_EmptySet
<1> QED BY <1>1, <1>2, <1>3, <1>4 DEF Slack, Own, Bit

\* A process that keeps an inode locked refers to it.
LEMMA LockedRefers ==
  ASSUME TypeInv, PlaceInv, NEW p \in Proc, NEW x \in Locked(p)
  PROVE  x \in Inum /\ Own(p, x) > 0
BY Numbers DEF Locked, Own, Bit

\* A step of p that takes only locks that are free and gives back only its own.
\* It keeps the count of references, but for symbolic links and for the
\* directories L, which it keeps locked for good.
LEMMA LocksAndRefsLost ==
  ASSUME TypeInv, TypeInv', LocksMatch, RefInv, NEW p \in Proc, Moves(p), NEW L \in SUBSET Inum,
         \A x \in Inum : holder'[x] = IF x \in Locked(p)' \/ x \in L THEN p
                                      ELSE IF x \in Locked(p) THEN NoProc ELSE holder[x],
         \A x \in Inum : x \in Locked(p)' \ Locked(p) => holder[x] = NoProc,
         \A x \in L : /\ holder[x] = NoProc /\ x \notin Locked(p)' /\ dinode'[x].type = "dir"
                      /\ ref'[x] - Own(p, x)' > ref[x] - Own(p, x),
         \A x \in Inum : ref'[x] - Own(p, x)' >= ref[x] - Own(p, x),
         \A x \in Inum : ref'[x] - Own(p, x)' > ref[x] - Own(p, x) =>
                            dinode'[x].type = "sym" \/ x \in L,
         \A x \in Inum : Slack(x) > 0 => dinode'[x].type = dinode[x].type
  PROVE  LocksMatch' /\ RefInv'
<1>1. ASSUME NEW x \in Inum
      PROVE  /\ Slack(x)' >= Slack(x) /\ Slack(x) >= 0 /\ Slack(x) \in Int /\ Slack(x)' \in Int
             /\ Slack(x)' > Slack(x) <=> ref'[x] - Own(p, x)' > ref[x] - Own(p, x)
  <2>1. Slack(x) \in Int /\ ref[x] \in Nat /\ ref'[x] \in Nat /\ Slack(x) >= 0
    BY RefsFinite DEF Slack, TypeInv, RefInv
  <2>2. Own(p, x) \in Nat /\ Own(p, x)' \in Nat
    BY DEF Own, Bit
  <2> QED BY <2>1, <2>2, SlackStep
<1>2. ASSUME NEW q \in Proc \ {p} PROVE Locked(q)' = Locked(q)
  BY <1>2 DEF Moves, Locked, At
<1>3. NoProc \notin Proc
  BY ProcAssumption
<1>4. ASSUME NEW x \in Inum, Slack(x)' > 0 PROVE ref'[x] > Cardinality(Holds(x))'
  <2>1. Cardinality(Holds(x))' \in Nat
    BY RefsSumNext DEF Own, Bit
  <2> QED BY <1>4, <2>1 DEF Slack, TypeInv
<1>5. ASSUME NEW x \in Inum, NEW q \in Proc, Lost(x, q) PROVE Lost(x, q)'
  <2>1. Slack(x) > 0 /\ Slack(x)' > 0
    <3>1. Slack(x) > 0
      BY <1>5, RefsFinite DEF Lost, Slack, TypeInv
    <3> QED BY <1>1, <3>1
  <2>2. x \in Dirs'
    BY <1>5, <2>1 DEF Lost, Dirs, Allocated
  <2>3. holder[x] = q /\ x \notin Locked(q)
    BY <1>5 DEF Lost
  <2>4. x \notin Locked(p) /\ x \notin Locked(p)' /\ x \notin L
    BY <1>3, <2>3 DEF LocksMatch
  <2>5. holder'[x] = q /\ x \notin Locked(q)'
    BY <1>2, <2>3, <2>4
  <2> QED BY <1>4, <2>1, <2>2, <2>5 DEF Lost
<1>6. ASSUME NEW x \in L PROVE Lost(x, p)'
  <2>1. x \in Dirs' /\ holder'[x] = p /\ x \notin Locked(p)'
    BY <1>6 DEF Dirs, Allocated
  <2>2. Slack(x)' > 0
    BY <1>1, <1>6
  <2> QED BY <1>4, <2>1, <2>2 DEF Lost
<1>7. LocksMatch'
  <2> SUFFICES ASSUME NEW q \in Proc, NEW x \in Inum
               PROVE  /\ x \in Locked(q)' => holder'[x] = q
                      /\ holder'[x] = q => x \in Locked(q)' \/ Lost(x, q)'
    BY DEF LocksMatch
  <2>1. CASE q = p
    <3>1. holder'[x] = p /\ x \notin Locked(p)' /\ x \notin L => holder[x] = p /\ x \notin Locked(p)
      BY <1>3
    <3> QED BY <1>5, <1>6, <2>1, <3>1 DEF LocksMatch
  <2>2. CASE q # p
    <3>1. Locked(q)' = Locked(q)
      BY <1>2, <2>2
    <3>2. ASSUME holder[x] = q PROVE x \notin Locked(p) /\ x \notin Locked(p)' /\ x \notin L
      BY <1>3, <2>2, <3>2 DEF LocksMatch
    <3>3. holder'[x] = q <=> holder[x] = q
      BY <1>3, <2>2, <3>2
    <3> QED BY <1>5, <3>1, <3>3 DEF LocksMatch
  <2> QED BY <2>1, <2>2
<1>8. RefInv'
  <2> SUFFICES ASSUME NEW x \in Inum
               PROVE  /\ Slack(x)' >= 0
                      /\ Slack(x)' > 0 => dinode'[x].type = "sym" \/ \E q \in Proc : Lost(x, q)'
    BY DEF RefInv
  <2>1. CASE Slack(x)' > Slack(x)
    BY <1>1, <1>6, <2>1
  <2>2. CASE Slack(x)' = Slack(x)
    BY <1>1, <1>5, <2>2 DEF RefInv
  <2> QED BY <1>1, <2>1, <2>2
<1> QED BY <1>7, <1>8

\* The same for a step that loses nothing.
LEMMA LocksAndRefs ==
  ASSUME TypeInv, TypeInv', LocksMatch, RefInv, NEW p \in Proc, Moves(p),
         \A x \in Inum : holder'[x] = IF x \in Locked(p)' THEN p
                                      ELSE IF x \in Locked(p) THEN NoProc ELSE holder[x],
         \A x \in Inum : x \in Locked(p)' \ Locked(p) => holder[x] = NoProc,
         \A x \in Inum : ref'[x] - Own(p, x)' = ref[x] - Own(p, x),
         \A x \in Inum : Slack(x) > 0 => dinode'[x].type = dinode[x].type
  PROVE  LocksMatch' /\ RefInv'
<1>1. \A x \in Inum : /\ Own(p, x) \in Nat /\ Own(p, x)' \in Nat /\ ref[x] \in Nat
                      /\ ref'[x] \in Nat
  BY DEF Own, Bit, TypeInv
<1>2. \A x \in Inum : /\ ref'[x] - Own(p, x)' >= ref[x] - Own(p, x)
                      /\ ~(ref'[x] - Own(p, x)' > ref[x] - Own(p, x))
  BY <1>1
<1> QED BY <1>2, LocksAndRefsLost, {} \in SUBSET Inum

\* What the other calls hold is not disturbed by a step of p.
LEMMA CallsKept ==
  ASSUME TypeInv, TypeInv', CallInv, NEW p \in Proc, Moves(p),
         Place(p)', Held(p)', Locked(p)' \subseteq valid',
         Fresh(p)' \in {0, Fresh(p)} \/ (Fresh(p)' \in Inum /\ ~Alive(Fresh(p)')),
         \A q \in Proc \ {p}, x \in Inum :
             Alive(x) /\ dinode'[x].type # dinode[x].type => Own(q, x) = 0,
         \A q \in Proc \ {p} : \A x \in Locked(q) :
             /\ dinode'[x] = dinode[x]
             /\ dinode[x].type = "dir" => block'[dinode[x].addr] = block[dinode[x].addr],
         \A q \in Proc \ {p} : Fresh(q) # 0 => dinode'[Fresh(q)].addr = 0,
         \A q \in Proc \ {p} : pc[q] = "put_free" => ref'[loc[q].put] = ref[loc[q].put],
         \A q \in Proc \ {p}, x \in Inum : x \in valid \ valid' => Own(q, x) = 0
  PROVE  PlaceInv' /\ HeldInv' /\ FreshInv' /\ LoadedInv'
<1>1. ASSUME NEW q \in Proc \ {p}
      PROVE  /\ pc'[q] = pc[q] /\ loc'[q] = loc[q] /\ ofile'[q] = ofile[q]
             /\ At(q)' = At(q) /\ Locked(q)' = Locked(q) /\ Fresh(q)' = Fresh(q)
             /\ pc[q] \in Label /\ loc[q] \in Local /\ ofile[q] \in Maybe
             /\ Place(q) /\ Held(q)
  BY DEF Moves, At, Locked, Fresh, TypeInv, CallInv, PlaceInv, HeldInv
<1>2. PlaceInv'
  <2> SUFFICES ASSUME NEW q \in Proc \ {p} PROVE Place(q)'
    BY DEF PlaceInv
  <2> QED BY <1>1 DEF Place
<1>3. HeldInv'
  <2> SUFFICES ASSUME NEW q \in Proc \ {p} PROVE Held(q)'
    BY DEF HeldInv
  <2> DEFINE l == loc[q]
  <2>1. ASSUME NEW x \in Inum, Own(q, x) > 0, Alive(x) PROVE dinode'[x].type = dinode[x].type
    BY <2>1
  <2>2. ASSUME NEW x \in Inum, x \in {ofile[q], l.ip, l.dp, l.old, l.put} PROVE Own(q, x) > 0
    BY <2>2 DEF Own, Bit
  <2>3. /\ ofile[q] \in Maybe /\ l.ip \in Maybe /\ l.dp \in Maybe /\ l.old \in Maybe
        /\ l.put \in Maybe
    BY <1>1 DEF Local
  <2>4. HeldRefs(q)'
    <3> DEFINE kept(i) == i # 0 /\ Alive(i) => dinode'[i].type = dinode[i].type
    <3>1. kept(ofile[q]) /\ kept(l.ip) /\ kept(l.dp) /\ kept(l.old) /\ kept(l.put)
      BY <2>1, <2>2, <2>3 DEF Maybe
    <3> QED BY <1>1, <3>1 DEF Held, HeldRefs, Alive
  <2>5. HeldMade(q)'
    <3>1. At(q) = "created" => l.ip # 0 /\ Alive(l.ip)
      BY <1>1 DEF Held, HeldRefs, Place
    <3>2. At(q) = "created" => dinode'[l.ip].type = Type(l.op)
      BY <1>1, <2>1, <2>2, <2>3, <3>1 DEF Held, HeldMade, Maybe
    <3>3. Fresh(q) # 0 => Fresh(q) \in Inum /\ Fresh(q) \in {ofile[q], l.ip}
      BY <2>3 DEF Fresh, Maybe
    <3>4. Fresh(q) # 0 => dinode'[Fresh(q)].type = "sym" /\ dinode'[Fresh(q)].addr = 0
      BY <1>1, <2>1, <2>2, <3>3 DEF Held, HeldMade, Alive
    <3> QED BY <1>1, <3>2, <3>4 DEF HeldMade
  <2>6. HeldFree(q)'
    <3>1. pc[q] = "put_free" => l.put \in Locked(q)
      BY <1>1, <2>3 DEF Place, PutPlace, Locked, Maybe
    <3> QED BY <1>1, <3>1 DEF Held, HeldFree
  <2>7. HeldName(q)'
    <3>1. At(q) = "unlink_ip" => l.dp \in Locked(q)
      BY <1>1, <2>3 DEF Place, Locked, Maybe
    <3>2. At(q) = "unlink_ip" => block'[dinode'[l.dp].addr] = block[dinode[l.dp].addr]
      BY <1>1, <3>1 DEF Held, HeldRefs, Place
    <3>3. HeldName(q) /\ At(q)' = At(q) /\ loc'[q] = l
      BY <1>1 DEF Held
    <3> QED BY <3>2, <3>3 DEF HeldName
  <2> QED BY <2>4, <2>5, <2>6, <2>7 DEF Held
<1>4. FreshInv'
  <2>1. ASSUME NEW q \in Proc \ {p}, Fresh(q) # 0 PROVE Fresh(q) # Fresh(p)'
    <3>1. Fresh(q) \in Inum => Alive(Fresh(q))
      BY <1>1, <2>1 DEF Held, HeldMade, Alive
    <3>2. Fresh(p) # Fresh(q)
      BY <2>1 DEF CallInv, FreshInv
    <3> QED BY <2>1, <3>1, <3>2
  <2> QED BY <1>1, <2>1 DEF CallInv, FreshInv
<1>5. LoadedInv'
  <2> SUFFICES ASSUME NEW q \in Proc \ {p}, NEW x \in Locked(q) PROVE x \in valid'
    BY <1>1 DEF LoadedInv
  <2> QED BY LockedRefers DEF CallInv, LoadedInv
<1> QED BY <1>2, <1>3, <1>4, <1>5

LEMMA DueFinite ==
  ASSUME NEW x \in Inum
  PROVE  /\ IsFiniteSet(Names(x)) /\ Cardinality(Names(x)) \in Nat
         /\ IsFiniteSet(Subs(x)) /\ Cardinality(Subs(x)) \in Nat
         /\ IsFiniteSet(Pending(x)) /\ Cardinality(Pending(x)) \in Nat
<1>1. IsFiniteSet(Dirs)
  BY Numbers, FS_Subset DEF Dirs, Allocated
<1>2. IsFiniteSet(Names(x))
  BY <1>1, Numbers, FS_Product, FS_Subset DEF Names
<1>3. IsFiniteSet(Subs(x))
  <2>1. Subs(x) \subseteq Dirs
    BY DEF Subs, Subdirs
  <2> QED BY <1>1, <2>1, FS_Subset
<1>4. IsFiniteSet(Pending(x))
  BY ProcAssumption, FS_Subset DEF Pending
<1> QED BY <1>2, <1>3, <1>4, FS_CardinalityType

\* A step that changes nothing on the disk.
LEMMA DiskKept ==
  ASSUME DiskInv, DirInv, LinkInv, TypeInv, TypeInv', UNCHANGED disk,
         \A x \in Inum : Pending(x)' \subseteq Pending(x)
  PROVE  DiskInv' /\ DirInv' /\ LinkInv'
<1>1. /\ dinode' = dinode /\ block' = block /\ bitmap' = bitmap
      /\ Dirs' = Dirs /\ \A x : Names(x)' = Names(x) /\ Subdirs(x)' = Subdirs(x)
  BY DEF disk, Dirs, Allocated, Names, Subdirs
<1>2. DiskInv'
  BY <1>1 DEF DiskInv, Alive, Target
<1>3. DirInv'
  BY <1>1 DEF DirInv
<1>4. ASSUME NEW x \in Inum
      PROVE  Cardinality(Pending(x))' \in Nat /\ Cardinality(Pending(x))' <= Cardinality(Pending(x))
  BY DueFinite, FS_Subset, FS_CardinalityType
<1>5. LinkInv'
  <2> SUFFICES ASSUME NEW x \in Inum PROVE Due(x)' <= dinode'[x].nlink
    BY DEF LinkInv
  <2>1. Names(x)' = Names(x) /\ Subs(x)' = Subs(x) /\ Base(x)' = Base(x)
    BY <1>1 DEF Subs, Base
  <2>2. Due(x) <= dinode[x].nlink /\ dinode[x].nlink \in Nat
    BY DEF LinkInv, TypeInv, Inode
  <2> QED BY <1>1, <1>4, <2>1, <2>2, DueFinite DEF Due, Base
<1> QED BY <1>2, <1>3, <1>5

\* The step of a call that changes nothing on the disk, and nothing that other
\* calls have seen.
LEMMA QuietRest ==
  ASSUME IInv, TypeInv', CacheInv', NEW p \in Proc, Moves(p), UNCHANGED <<disk, panic>>,
         Place(p)', Held(p)', Locked(p)' \subseteq valid', LocksMatch', RefInv',
         Fresh(p)' \in {0, Fresh(p)},
         \A x \in Inum : ref'[x] # ref[x] =>
             dinode[x].nlink > 0 \/ \A q \in Proc \ {p} : Own(q, x) > 0 => ref[x] > 1,
         \A q \in Proc \ {p}, x \in Inum : x \in valid \ valid' => Own(q, x) = 0,
         \A x \in Inum : p \in Pending(x)' => p \in Pending(x)
  PROVE  IInv'
<1>1. UNCHANGED <<dinode, bitmap, block>>
  BY DEF disk
<1>2. ASSUME NEW q \in Proc \ {p}, pc[q] = "put_free" PROVE ref'[loc[q].put] = ref[loc[q].put]
  <2>1. dinode[loc[q].put].nlink = 0 /\ ref[loc[q].put] = 1
    BY <1>2 DEF IInv, CallInv, HeldInv, Held, HeldFree
  <2>2. loc[q].put \in Inum
    BY <1>2 DEF IInv, TypeInv, Local, Maybe, CallInv, PlaceInv, Place, PutPlace
  <2>3. Own(q, loc[q].put) > 0
    BY DEF Own, Bit
  <2> QED BY <2>1, <2>2, <2>3
<1>3. PlaceInv' /\ HeldInv' /\ FreshInv' /\ LoadedInv'
  <2>1. \A q \in Proc \ {p} : Fresh(q) # 0 => dinode'[Fresh(q)].addr = 0
    BY <1>1 DEF IInv, CallInv, HeldInv, Held, HeldMade
  <2> QED BY <1>1, <1>2, <2>1, CallsKept DEF IInv
<1>4. ASSUME NEW x \in Inum PROVE Pending(x)' \subseteq Pending(x)
  BY DEF Pending, Moves, At
<1>5. DiskInv' /\ DirInv' /\ LinkInv'
  BY <1>4, DiskKept DEF IInv
<1>6. NoPanic'
  BY DEF IInv, NoPanic
<1> QED BY <1>3, <1>5, <1>6 DEF IInv, CallInv

LEMMA QuietStep ==
  ASSUME IInv, TypeInv', CacheInv', NEW p \in Proc, Moves(p), UNCHANGED <<disk, panic>>,
         Place(p)', Held(p)', Locked(p)' \subseteq valid',
         Fresh(p)' \in {0, Fresh(p)},
         \A x \in Inum : holder'[x] = IF x \in Locked(p)' THEN p
                                      ELSE IF x \in Locked(p) THEN NoProc ELSE holder[x],
         \A x \in Inum : x \in Locked(p)' \ Locked(p) => holder[x] = NoProc,
         \A x \in Inum : ref'[x] - Own(p, x)' = ref[x] - Own(p, x),
         \A x \in Inum : ref'[x] # ref[x] =>
             dinode[x].nlink > 0 \/ \A q \in Proc \ {p} : Own(q, x) > 0 => ref[x] > 1,
         \A q \in Proc \ {p}, x \in Inum : x \in valid \ valid' => Own(q, x) = 0,
         \A x \in Inum : p \in Pending(x)' => p \in Pending(x)
  PROVE  IInv'
<1>1. dinode' = dinode
  BY DEF disk
<1>2. LocksMatch' /\ RefInv'
  BY <1>1, LocksAndRefs DEF IInv, CallInv
<1> QED BY <1>2, QuietRest

LEMMA Parts == IInv => /\ TypeInv /\ PlaceInv /\ HeldInv /\ FreshInv /\ LocksMatch /\ RefInv
                       /\ CacheInv /\ LoadedInv /\ DiskInv /\ DirInv /\ LinkInv /\ NoPanic
                       /\ \A p \in Proc : Place(p) /\ Held(p)
                       /\ \A i \in Inum : Loaded(i) = dinode[i]
BY Current DEF IInv, CallInv, PlaceInv, HeldInv

LEMMA IdleTyped == Idle \in Local
BY DEF Idle, Local, Maybe, Arg, Label

LEMMA CloseStep ==
  ASSUME IInv, NEW p \in Proc, Close(p)
  PROVE  IInv'
<1> DEFINE i == ofile[p]
<1>1. /\ pc[p] = "user" /\ i # 0 /\ ofile' = [ofile EXCEPT ![p] = 0]
      /\ pc' = [pc EXCEPT ![p] = "put"]
      /\ loc' = [loc EXCEPT ![p] = [Idle EXCEPT !.put = i, !.after = "user"]]
      /\ UNCHANGED <<disk, dinode, bitmap, block, core, valid, ref, holder, panic>>
  BY DEF Close, Runs, Put, Goto, disk, cache
<1>2. TypeInv' /\ Moves(p)
  BY <1>1, Parts, IdleTyped DEF TypeInv, Local, Label, PutPlace, Maybe, Moves
<1>3. /\ pc'[p] = "put" /\ ofile'[p] = 0 /\ At(p) = "user" /\ At(p)' = "user"
      /\ Place(p) /\ Held(p) /\ i \in Inum
  BY <1>1, Parts, IdleTyped DEF TypeInv, At, Idle, Maybe, Local
<1>4. loc[p].ip = 0 /\ loc[p].dp = 0 /\ loc[p].old = 0 /\ loc[p].put = 0
  BY <1>1, <1>3 DEF Place, PutPlace
<1>5. /\ loc'[p].op = "none" /\ loc'[p].ip = 0 /\ loc'[p].dp = 0 /\ loc'[p].old = 0
      /\ loc'[p].put = i
  BY <1>1, Parts DEF Idle, TypeInv
<1>6. Place(p)'
  BY <1>1, <1>3, <1>5 DEF Place, PutPlace
<1>7. Held(p)'
  BY <1>1, <1>3, <1>5 DEF Held, HeldRefs, HeldMade, HeldFree, HeldName, Fresh, Alive
<1>8. Locked(p)' = {} /\ Locked(p) = {} /\ Fresh(p)' = 0 /\ CacheInv'
  BY <1>1, <1>3, Parts DEF Locked, Fresh, CacheInv
<1>9. \A x \in Inum : /\ ref'[x] - Own(p, x)' = ref[x] - Own(p, x)
                      /\ p \notin Pending(x)'
  BY <1>1, <1>3, <1>4, <1>5, Numbers DEF Own, Bit, Pending
<1> QED BY <1>1, <1>2, <1>6, <1>7, <1>8, <1>9, QuietStep

LEMMA IputCheckStep ==
  ASSUME IInv, NEW p \in Proc, IputCheck(p)
  PROVE  IInv'
<1> DEFINE i == loc[p].put
<1>1. /\ pc[p] = "put" /\ holder[i] = NoProc
      /\ \/ /\ i \in valid /\ core[i].nlink = 0 /\ ref[i] = 1
            /\ pc' = [pc EXCEPT ![p] = "put_free"] /\ holder' = [holder EXCEPT ![i] = p]
         \/ pc' = [pc EXCEPT ![p] = "put_drop"] /\ UNCHANGED holder
      /\ UNCHANGED <<disk, dinode, bitmap, block, core, valid, ref, loc, ofile, panic>>
  BY DEF IputCheck, Runs, Goto, Free, LastRef, disk
<1>2. Place(p) /\ Held(p) /\ i \in Inum /\ TypeInv /\ CacheInv
  BY <1>1, Parts DEF Place, PutPlace, TypeInv, Local, Maybe
<1>3. TypeInv' /\ Moves(p)
  BY <1>1, <1>2 DEF TypeInv, Label, PutPlace, Moves
<1>4. pc'[p] \in {"put_free", "put_drop"} /\ At(p)' = At(p) /\ Fresh(p)' = Fresh(p)
  BY <1>1, <1>2 DEF TypeInv, At, Fresh
<1>5. Place(p)'
  BY <1>1, <1>2, <1>4 DEF Place, PutPlace
<1>6. Held(p)'
  <2>1. HeldFree(p)'
    BY <1>1, <1>2, <1>4 DEF HeldFree, TypeInv, CacheInv
  <2> QED BY <1>1, <1>2, <1>4, <2>1 DEF Held, HeldRefs, HeldMade, HeldName, Alive
<1>7. /\ Locked(p)' = IF pc'[p] = "put_free" THEN Locked(p) \union {i} ELSE Locked(p)
      /\ Locked(p)' \subseteq valid'
      /\ pc'[p] = "put_free" <=> holder' = [holder EXCEPT ![i] = p]
  <2>1. Locked(p) \subseteq valid /\ NoProc \notin Proc
    BY Parts, ProcAssumption DEF LoadedInv
  <2> QED BY <1>1, <1>2, <1>4, <2>1 DEF Locked, TypeInv
<1>8. \A x \in Inum : /\ Own(p, x)' = Own(p, x) /\ ref'[x] = ref[x]
                      /\ p \in Pending(x)' => p \in Pending(x)
  BY <1>1, <1>4 DEF Own, Pending
<1>9. \A x \in Locked(p) : holder[x] = p /\ x # i
  BY <1>1, Parts, ProcAssumption, LockedRefers DEF LocksMatch
<1>10. CacheInv'
  BY <1>1, <1>2 DEF CacheInv
<1> QED
  <2>1. \A x \in Inum : holder'[x] = IF x \in Locked(p)' THEN p
                                     ELSE IF x \in Locked(p) THEN NoProc ELSE holder[x]
    BY <1>1, <1>2, <1>4, <1>7, <1>9 DEF TypeInv
  <2>2. \A x \in Inum : x \in Locked(p)' \ Locked(p) => holder[x] = NoProc
    BY <1>1, <1>7
  <2> QED BY <1>1, <1>3, <1>4, <1>5, <1>6, <1>7, <1>8, <1>10, <2>1, <2>2, QuietStep

\* The last of a process's references to an inode, of which there is no other.
LEMMA IputDropStep ==
  ASSUME IInv, NEW p \in Proc, IputDrop(p)
  PROVE  IInv'
<1> DEFINE l == loc[p]  i == l.put
<1>1. /\ pc[p] = "put_drop" /\ ref' = [ref EXCEPT ![i] = @ - 1]
      /\ valid' = (IF ref[i] = 1 THEN valid \ {i} ELSE valid)
      /\ core' = (IF ref[i] = 1 THEN [core EXCEPT ![i] = FreeInode] ELSE core)
      /\ \/ /\ l.after = "user" /\ pc' = [pc EXCEPT ![p] = "user"]
            /\ loc' = [loc EXCEPT ![p] = Idle]
         \/ /\ l.after # "user" /\ pc' = [pc EXCEPT ![p] = l.after]
            /\ loc' = [loc EXCEPT ![p].put = 0, ![p].after = "user"]
      /\ UNCHANGED <<disk, dinode, bitmap, block, holder, ofile, panic>>
  BY DEF IputDrop, Runs, Return, Goto, disk
<1>2. Place(p) /\ Held(p) /\ i \in Inum /\ TypeInv /\ CacheInv /\ l \in Local /\ At(p) = l.after
  BY <1>1, Parts DEF Place, PutPlace, TypeInv, Local, Maybe, At
<1>3. /\ Own(p, i) > 0 /\ ref[i] > 0 /\ \A x \in Inum : ref[x] \in Nat
      /\ ref[i] = 1 => Own(p, i) = 1
      /\ \A q \in Proc \ {p} : Own(q, i) > 0 => ref[i] > 1
  <2>1. Own(p, i) \in Nat /\ Own(p, i) > 0 /\ \A x \in Inum : ref[x] \in Nat
    BY <1>2 DEF Own, Bit, TypeInv
  <2> QED BY <1>2, <2>1, Parts, Counted
<1>4. FreeInode \in Inode
  BY DEF FreeInode, Inode
<1>5. TypeInv' /\ Moves(p)
  <2>1. ref' \in [Inum -> Nat] /\ core' \in [Inum -> Inode]
    BY <1>1, <1>2, <1>3, <1>4 DEF TypeInv
  <2>2. [l EXCEPT !.put = 0, !.after = "user"] \in Local
    BY <1>2 DEF Local, Maybe, Label
  <2>3. loc' \in [Proc -> Local]
    <3>1. \/ loc' = [loc EXCEPT ![p] = Idle]
          \/ loc' = [loc EXCEPT ![p] = [l EXCEPT !.put = 0, !.after = "user"]]
      BY <1>1, <1>2 DEF TypeInv, Local
    <3>2. loc \in [Proc -> Local]
      BY <1>2 DEF TypeInv
    <3> HIDE DEF l
    <3> QED BY <2>2, <3>1, <3>2, IdleTyped
  <2>4. pc' \in [Proc -> Label]
    BY <1>1, <1>2 DEF TypeInv, Label, Local
  <2>5. Moves(p)
    BY <1>1, <1>2 DEF TypeInv, Moves
  <2> QED BY <1>1, <1>2, <2>1, <2>3, <2>4, <2>5 DEF TypeInv
<1>6. /\ pc'[p] = l.after /\ At(p)' = l.after
      /\ loc'[p].ip = l.ip /\ loc'[p].dp = l.dp /\ loc'[p].old = l.old /\ loc'[p].put = 0
      /\ l.after # "user" => /\ loc'[p].op = l.op /\ loc'[p].arg = l.arg
                             /\ loc'[p].path = l.path
      /\ l.after = "user" => loc'[p].op = "none"
  <2>1. l.after = "user" => l.ip = 0 /\ l.dp = 0 /\ l.old = 0
    BY <1>2 DEF Place
  <2>2. l.after \notin PutPlace
    BY <1>2 DEF Place
  <2> QED BY <1>1, <1>2, <2>1, <2>2 DEF TypeInv, Local, At, PutPlace, Idle
<1>7. Place(p)'
  <2>1. l.after # "write_link"
    BY <1>1, <1>2 DEF Place
  <2>2. l.after \notin PutPlace
    BY <1>2 DEF Place
  <2> QED BY <1>1, <1>2, <1>6, <2>1, <2>2 DEF Place
<1>8. Fresh(p)' = Fresh(p)
  <2>1. l.after # "write_link"
    BY <1>1, <1>2 DEF Place
  <2> QED BY <1>1, <1>2, <1>6, <2>1 DEF Fresh
<1>9. Held(p)'
  <2>1. l.after \notin PutPlace
    BY <1>2 DEF Place
  <2>2. HeldRefs(p)' /\ HeldFree(p)'
    BY <1>1, <1>2, <1>6, <2>1 DEF Held, HeldRefs, HeldFree, PutPlace, Alive
  <2>3. HeldMade(p)' /\ HeldName(p)'
    BY <1>1, <1>2, <1>6, <1>8 DEF Held, HeldMade, HeldName
  <2> QED BY <2>2, <2>3 DEF Held
<1>10. Locked(p)' = Locked(p)
  <2>1. l.after \notin PutPlace
    BY <1>2 DEF Place
  <2> QED BY <1>1, <1>2, <1>6, <2>1 DEF Locked, PutPlace
<1>11. ASSUME NEW x \in Inum
       PROVE  ref'[x] - Own(p, x)' = ref[x] - Own(p, x) /\ (p \in Pending(x)' => p \in Pending(x))
  <2>1. p \in Pending(x)' => p \in Pending(x)
    <3>1. l.old = x => loc'[p].old = x
      BY <1>6
    <3> QED BY <1>2, <1>6 DEF Pending
  <2>2. ref'[x] = IF x = i THEN ref[x] - 1 ELSE ref[x]
    BY <1>1, <1>2 DEF TypeInv
  <2>3. Own(p, x) = Own(p, x)' + (IF x = i THEN 1 ELSE 0) /\ Own(p, x)' \in Nat
    BY <1>1, <1>6, Numbers DEF Own, Bit
  <2> QED BY <1>3, <2>1, <2>2, <2>3
<1>12. Locked(p)' \subseteq valid'
  <2> SUFFICES ASSUME NEW x \in Locked(p), x \notin valid' PROVE FALSE
    BY <1>10
  <2>1. x \in valid /\ x = i /\ ref[i] = 1
    BY <1>1, Parts DEF LoadedInv
  <2>2. i = l.ip \/ i = l.dp
    BY <1>1, <2>1 DEF Locked
  <2>3. Own(p, i) > 1
    BY <2>2 DEF Own, Bit
  <2> QED BY <1>3, <2>1, <2>3
<1>13. CacheInv'
  BY <1>1, <1>2 DEF CacheInv, TypeInv
<1>14. \A q \in Proc \ {p}, x \in Inum : x \in valid \ valid' => Own(q, x) = 0
  <2>1. \A q \in Proc \ {p} : Own(q, i) \in Nat
    BY DEF Own, Bit
  <2> QED BY <1>1, <1>3, <2>1
<1>15. \A x \in Inum : ref'[x] # ref[x] => \A q \in Proc \ {p} : Own(q, x) > 0 => ref[x] > 1
  BY <1>1, <1>2, <1>3 DEF TypeInv
<1>16. \A x \in Inum : holder'[x] = IF x \in Locked(p) THEN p ELSE holder[x]
  BY <1>1, Parts, LockedRefers DEF LocksMatch
<1> QED BY <1>1, <1>5, <1>7, <1>8, <1>9, <1>10, <1>11, <1>12, <1>13, <1>14, <1>15, <1>16, QuietStep

(***************************************************************************)
(* namex() at its beginning.                                               *)
(***************************************************************************)

\* Where namei() or nameiparent() goes from the root, with its reference.
LEMMA WalkEffects ==
  ASSUME TypeInv, NEW p \in Proc, NEW l \in Local, Walk(p, l),
         l.op \in Walker, l.dp = 0, l.put = 0, l.old # 0 <=> l.op = "link2",
         l.op \in {"symlink", "link"} => l.arg \in Path
  PROVE  /\ ref' = [ref EXCEPT ![RootInum] = @ + 1] /\ ref' \in [Inum -> Nat]
         /\ pc' \in [Proc -> Label] /\ loc' \in [Proc -> Local]
         /\ \A q \in Proc \ {p} : pc'[q] = pc[q] /\ loc'[q] = loc[q]
         /\ Place(p)' /\ Locked(p)' = {} /\ Fresh(p)' = 0
         /\ \A x \in Inum : /\ Own(p, x)' = Bit(ofile'[p] = x) + Bit(RootInum = x) + Bit(l.old = x)
                            /\ p \in Pending(x)' <=> l.old = x
         /\ (/\ ofile'[p] # 0 => dinode'[ofile'[p]].type # "free"
             /\ dinode'[RootInum].type = "dir"
             /\ l.old # 0 => dinode'[l.old].type \in {"file", "sym"}) => Held(p)'
<1>1. ref' = [ref EXCEPT ![RootInum] = @ + 1] /\ ref' \in [Inum -> Nat]
  BY Numbers DEF Walk, Get, TypeInv
<1>2. RootInum \in Inum /\ RootInum # 0
  BY Numbers
<1>3. \/ /\ l.path = <<>> /\ Parent(l.op)
         /\ pc' = [pc EXCEPT ![p] = "put"]
         /\ loc' = [loc EXCEPT ![p] =
                       [l EXCEPT !.ip = 0, !.put = RootInum, !.after = Failed(l.op)]]
      \/ /\ pc' = [pc EXCEPT ![p] = IF l.path = <<>> THEN Found(l.op) ELSE "walk"]
         /\ l.path = <<>> => ~Parent(l.op)
         /\ loc' = [loc EXCEPT ![p] = [l EXCEPT !.ip = RootInum]]
  <2>1. [[l EXCEPT !.ip = 0] EXCEPT !.put = RootInum, !.after = Failed(l.op)]
           = [l EXCEPT !.ip = 0, !.put = RootInum, !.after = Failed(l.op)]
    BY DEF Local
  <2> QED BY <2>1 DEF Walk, Put, Goto
<1>4. loc'[p].op = l.op /\ loc'[p].path = l.path /\ loc'[p].arg = l.arg /\ loc'[p].dp = 0
      /\ loc'[p].old = l.old
  <2>1. loc \in [Proc -> Local]
    BY DEF TypeInv
  <2>2. CASE loc' = [loc EXCEPT ![p] = [l EXCEPT !.ip = 0, !.put = RootInum,
                                                 !.after = Failed(l.op)]]
    BY <2>1, <2>2 DEF Local
  <2>3. CASE loc' = [loc EXCEPT ![p] = [l EXCEPT !.ip = RootInum]]
    BY <2>1, <2>3 DEF Local
  <2> QED BY <1>3, <2>2, <2>3
<1>5. \/ /\ pc'[p] = "put" /\ loc'[p].put = RootInum /\ loc'[p].ip = 0
         /\ At(p)' = IF l.op = "link2" THEN "link_bad" ELSE "user"
      \/ /\ loc'[p].put = 0 /\ loc'[p].ip = RootInum /\ At(p)' = pc'[p]
         /\ \/ pc'[p] = "walk" /\ l.path # <<>>
            \/ pc'[p] = "open" /\ l.op \in {"open", "opensym"}
            \/ pc'[p] = "link" /\ l.op = "link"
  <2>1. pc \in [Proc -> Label] /\ loc \in [Proc -> Local]
    BY DEF TypeInv
  <2>2. CASE pc' = [pc EXCEPT ![p] = "put"] /\ Parent(l.op)
    <3>1. loc' = [loc EXCEPT ![p] = [l EXCEPT !.ip = 0, !.put = RootInum, !.after = Failed(l.op)]]
      BY <1>3, <2>1, <2>2 DEF Found, Parent
    <3> QED BY <2>1, <2>2, <3>1 DEF At, Failed, Local
  <2>3. CASE ~(pc' = [pc EXCEPT ![p] = "put"] /\ Parent(l.op))
    <3>1. /\ pc'[p] = IF l.path = <<>> THEN Found(l.op) ELSE "walk"
          /\ l.path = <<>> => ~Parent(l.op)
          /\ loc'[p].ip = RootInum /\ loc'[p].put = 0
      BY <1>3, <2>1, <2>3 DEF Local
    <3>2. l.path = <<>> => \/ Found(l.op) = "open" /\ l.op \in {"open", "opensym"}
                           \/ Found(l.op) = "link" /\ l.op = "link"
      BY <3>1 DEF Found, Parent, Walker, Maker
    <3> QED BY <3>1, <3>2 DEF At
  <2> QED BY <2>2, <2>3
<1>6. /\ pc' \in [Proc -> Label] /\ loc' \in [Proc -> Local]
      /\ \A q \in Proc \ {p} : pc'[q] = pc[q] /\ loc'[q] = loc[q]
  <2>1. /\ [l EXCEPT !.ip = 0, !.put = RootInum, !.after = Failed(l.op)] \in Local
        /\ [l EXCEPT !.ip = RootInum] \in Local
    BY <1>2 DEF Local, Maybe, Failed, Label
  <2>2. \A q \in Proc \ {p} : pc'[q] = pc[q] /\ loc'[q] = loc[q]
    BY <1>3 DEF TypeInv
  <2>3. loc' \in [Proc -> Local]
    BY <1>3, <2>1 DEF TypeInv
  <2>4. pc'[p] \in Label
    BY <1>5 DEF Label, PutPlace
  <2> QED BY <1>3, <2>2, <2>3, <2>4 DEF TypeInv
<1>7. Place(p)'
  BY <1>2, <1>4, <1>5 DEF Place, PutPlace, Walker, Maker
<1>8. Locked(p)' = {} /\ Fresh(p)' = 0
  BY <1>5 DEF Locked, Fresh
<1>9. ASSUME NEW x \in Inum
      PROVE  /\ Own(p, x)' = Bit(ofile'[p] = x) + Bit(RootInum = x) + Bit(l.old = x)
             /\ p \in Pending(x)' <=> l.old = x
  BY <1>4, <1>5, Numbers DEF Own, Bit, Pending
<1>10. (/\ ofile'[p] # 0 => dinode'[ofile'[p]].type # "free"
        /\ dinode'[RootInum].type = "dir"
        /\ l.old # 0 => dinode'[l.old].type \in {"file", "sym"}) => Held(p)'
  <2>1. HeldMade(p)' /\ HeldFree(p)' /\ HeldName(p)'
    BY <1>5, <1>8 DEF HeldMade, HeldFree, HeldName
  <2> SUFFICES ASSUME ofile'[p] # 0 => dinode'[ofile'[p]].type # "free",
                      dinode'[RootInum].type = "dir",
                      l.old # 0 => dinode'[l.old].type \in {"file", "sym"}
               PROVE  HeldRefs(p)'
    BY <2>1 DEF Held
  <2> QED BY <1>2, <1>4, <1>5 DEF HeldRefs, Alive
<1> QED BY <1>1, <1>6, <1>7, <1>8, <1>9, <1>10

\* Descriptors, and the names of a directory, lead to inodes in use.
LEMMA RootLinked == IInv => dinode[RootInum].type = "dir" /\ dinode[RootInum].nlink > 0
<1> SUFFICES ASSUME IInv PROVE dinode[RootInum].type = "dir" /\ dinode[RootInum].nlink > 0
  OBVIOUS
<1>1. Due(RootInum) <= dinode[RootInum].nlink /\ RootInum \in Inum /\ dinode[RootInum].nlink \in Nat
  BY Parts, Numbers DEF LinkInv, TypeInv, Inode
<1>2. Due(RootInum) \in Nat /\ Due(RootInum) >= 1
  BY Numbers, DueFinite DEF Due, Base
<1> QED BY <1>1, <1>2, Parts DEF DiskInv

LEMMA CallStep ==
  ASSUME IInv, NEW p \in Proc, Calls(p)
  PROVE  IInv'
<1>1. PICK c \in Menu : Call(p, c.op, c.path, c.arg)
  BY DEF Calls
<1> DEFINE l == [Idle EXCEPT !.op = c.op, !.path = c.path, !.arg = c.arg]
<1>2. /\ pc[p] = "user" /\ Walk(p, l)
      /\ UNCHANGED <<disk, dinode, bitmap, block, core, valid, holder, ofile, panic>>
  BY <1>1 DEF Call, Runs, disk
<1>3. /\ l \in Local /\ l.op \in Walker /\ l.op # "link2" /\ l.dp = 0 /\ l.put = 0 /\ l.old = 0
      /\ l.op \in {"symlink", "link"} => l.arg \in Path
  BY MenuAssumption, PathAssumption, IdleTyped DEF Local, Walker, Maker, Idle, Arg
<1>4. Place(p) /\ Held(p) /\ TypeInv /\ At(p) = "user" /\ loc[p] \in Local
  BY <1>2, Parts DEF At, TypeInv
<1>5. loc[p].ip = 0 /\ loc[p].dp = 0 /\ loc[p].old = 0 /\ loc[p].put = 0
  BY <1>2, <1>4 DEF Place, PutPlace
<1> HIDE DEF l
<1>6. /\ ref' = [ref EXCEPT ![RootInum] = @ + 1] /\ ref' \in [Inum -> Nat]
      /\ pc' \in [Proc -> Label] /\ loc' \in [Proc -> Local]
      /\ \A q \in Proc \ {p} : pc'[q] = pc[q] /\ loc'[q] = loc[q]
      /\ Place(p)' /\ Locked(p)' = {} /\ Fresh(p)' = 0
      /\ \A x \in Inum : /\ Own(p, x)' = Bit(ofile'[p] = x) + Bit(RootInum = x) + Bit(l.old = x)
                         /\ p \in Pending(x)' <=> l.old = x
      /\ (/\ ofile'[p] # 0 => dinode'[ofile'[p]].type # "free"
          /\ dinode'[RootInum].type = "dir"
          /\ l.old # 0 => dinode'[l.old].type \in {"file", "sym"}) => Held(p)'
  BY <1>2, <1>3, <1>4, WalkEffects
<1>7. Held(p)'
  <2>1. ofile'[p] # 0 => dinode'[ofile'[p]].type # "free"
    BY <1>2, <1>4 DEF Held, HeldRefs, Alive
  <2> QED BY <1>2, <1>3, <1>6, <2>1, RootLinked
<1>8. Locked(p) = {}
  BY <1>2, <1>4 DEF Locked
<1>9. TypeInv' /\ Moves(p) /\ CacheInv'
  BY <1>2, <1>6, Parts DEF TypeInv, Moves, CacheInv
<1>10. ASSUME NEW x \in Inum
       PROVE  /\ ref'[x] - Own(p, x)' = ref[x] - Own(p, x)
              /\ p \notin Pending(x)'
              /\ ref'[x] # ref[x] => dinode[x].nlink > 0
  <2>1. ref'[x] = ref[x] + Bit(RootInum = x) /\ ref[x] \in Nat
    BY <1>4, <1>6 DEF Bit, TypeInv
  <2>2. Own(p, x)' = Own(p, x) + Bit(RootInum = x) /\ Own(p, x) \in Nat
    BY <1>2, <1>3, <1>5, <1>6, Numbers DEF Own, Bit
  <2> QED BY <1>3, <1>6, <2>1, <2>2, RootLinked, Numbers DEF Bit
<1> QED BY <1>2, <1>6, <1>7, <1>8, <1>9, <1>10, QuietStep

(***************************************************************************)
(* What a process finds when it has an inode's lock.                       *)
(***************************************************************************)

\* ilock() loads what is on disk.
LEMMA LoadKeeps ==
  ASSUME TypeInv, CacheInv, NEW i \in Inum, Load({i}), dinode' = dinode
  PROVE  /\ core' \in [Inum -> Inode] /\ valid' \subseteq Inum /\ CacheInv'
         /\ valid' = valid \union {i}
<1>1. \A x \in Inum : Loaded(x) = dinode[x]
  BY Current
<1> QED BY <1>1 DEF Load, TypeInv, CacheInv

\* Every entry of a directory leads to an inode that counts it.
LEMMA EntryLinked ==
  ASSUME IInv, NEW d \in Inum, dinode[d].type = "dir", NEW k \in Slot,
         block[dinode[d].addr].slot[k].inum # 0
  PROVE  LET x == block[dinode[d].addr].slot[k].inum
         IN  x \in Inum /\ dinode[x].nlink > 0 /\ Alive(x) /\ <<d, k>> \in Names(x)
<1> DEFINE x == block[dinode[d].addr].slot[k].inum
<1>1. d \in Dirs /\ dinode[d].addr \in Block
  BY Parts DEF Dirs, Allocated, DiskInv, TypeInv, Inode
<1>2. x \in Inum
  BY <1>1, Parts DEF TypeInv, Content, Entry, Maybe
<1>3. <<d, k>> \in Names(x)
  BY <1>1 DEF Names
<1>4. Cardinality(Names(x)) > 0
  BY <1>2, <1>3, DueFinite, FS_EmptySet
<1>5. Due(x) > 0
  BY <1>2, <1>4, DueFinite DEF Due, Base
<1>6. dinode[x].nlink > 0
  <2>1. Due(x) <= dinode[x].nlink /\ dinode[x].nlink \in Nat /\ Due(x) \in Nat
    BY <1>2, Parts, DueFinite DEF LinkInv, TypeInv, Inode, Due, Base
  <2> QED BY <1>5, <2>1
<1>7. Alive(x)
  BY <1>2, <1>6, Parts DEF DiskInv
<1> QED BY <1>2, <1>3, <1>6, <1>7

LEMMA TailLeft ==
  ASSUME NEW s \in Seq(Name), s # <<>>, Len(s) # 1
  PROVE  Tail(s) # <<>>
<1>1. Len(s) \in Nat /\ Len(s) # 0
  OBVIOUS
<1>2. Len(Tail(s)) = Len(s) - 1
  BY <1>1
<1>3. Len(<<>>) = 0
  OBVIOUS
<1>4. Len(s) - 1 # 0
  BY <1>1
<1> QED BY <1>2, <1>3, <1>4

\* dirlookup() finds an inode in use.
LEMMA LookupLinked ==
  ASSUME IInv, NEW d \in Inum, dinode[d].type = "dir", NEW name
  PROVE  LET x == Lookup(d, name)
             slot == block[dinode[d].addr].slot
         IN  /\ x # 0 => /\ x \in Inum /\ dinode[x].nlink > 0 /\ Alive(x)
                         /\ \E k \in Slot : slot[k].inum = x /\ slot[k].name = name
             /\ x = 0 => \A k \in Slot : slot[k].inum = 0 \/ slot[k].name # name
<1> DEFINE slot == block[dinode[d].addr].slot
           s == {k \in Slot : slot[k].inum # 0 /\ slot[k].name = name}
<1>1. Slots(d) = slot
  BY Parts DEF Slots
<1>2. Lookup(d, name) = IF s = {} THEN 0 ELSE slot[Min(s)].inum
  BY <1>1 DEF Lookup
<1>3. s # {} => Min(s) \in s
  BY Numbers, MinIn
<1> QED BY <1>2, <1>3, EntryLinked

LEMMA StepStep ==
  ASSUME IInv, NEW p \in Proc, Step(p)
  PROVE  IInv'
<1> DEFINE l == loc[p]  i == l.ip  next == Lookup(i, Head(l.path))
<1>1. pc[p] = "walk" /\ At(p) = "walk" /\ Place(p) /\ Held(p) /\ TypeInv /\ l \in Local
  BY Parts DEF Step, Runs, At, TypeInv
<1>2. /\ i \in Inum /\ Alive(i) /\ l.dp = 0 /\ l.put = 0 /\ l.op \in Walker
      /\ l.old # 0 <=> l.op = "link2"
      /\ l.path \in Seq(Name) /\ l.path # <<>>
      /\ l.old # 0 => dinode[l.old].type \in {"file", "sym"}
      /\ ofile[p] # 0 => Alive(ofile[p])
      /\ l.op \in {"symlink", "link"} => l.arg \in Path
  BY <1>1 DEF Place, PutPlace, Held, HeldRefs, Local, Maybe
<1>3. Typed(i) /\ Loaded(i) = dinode[i]
  BY <1>2, Parts DEF Typed, Alive
<1> DEFINE after == IF Len(l.path) = 1 THEN Found(l.op) ELSE "walk"
           fails == /\ ref' = ref /\ pc' = [pc EXCEPT ![p] = "put"]
                    /\ loc' = [loc EXCEPT ![p] = [l EXCEPT !.ip = 0, !.put = i,
                                                           !.after = Failed(l.op)]]
           stops == /\ dinode[i].type = "dir" /\ Parent(l.op) /\ ref' = ref
                    /\ pc' = [pc EXCEPT ![p] = Found(l.op)]
                    /\ loc' = [loc EXCEPT ![p] = [l EXCEPT !.dp = i, !.ip = 0]]
           goes  == /\ dinode[i].type = "dir" /\ next # 0 /\ (Len(l.path) = 1 => ~Parent(l.op))
                    /\ ref' = [ref EXCEPT ![next] = @ + 1] /\ pc' = [pc EXCEPT ![p] = "put"]
                    /\ loc' = [loc EXCEPT ![p] = [l EXCEPT !.ip = next, !.path = Tail(l.path),
                                                           !.put = i, !.after = after]]
<1>4. /\ Load({i}) /\ (fails \/ stops \/ goes)
      /\ UNCHANGED <<disk, dinode, bitmap, block, holder, ofile, panic>>
  <2>1. /\ [[l EXCEPT !.ip = 0] EXCEPT !.put = i, !.after = Failed(l.op)]
              = [l EXCEPT !.ip = 0, !.put = i, !.after = Failed(l.op)]
        /\ [[l EXCEPT !.ip = next, !.path = Tail(@)] EXCEPT !.put = i, !.after = after]
              = [l EXCEPT !.ip = next, !.path = Tail(l.path), !.put = i, !.after = after]
        /\ [loc EXCEPT ![p].dp = i, ![p].ip = 0] = [loc EXCEPT ![p] = [l EXCEPT !.dp = i, !.ip = 0]]
    BY <1>1 DEF Local, TypeInv
  <2> QED BY <1>3, <2>1 DEF Step, Ilock, Put, Goto, Get, disk
<1>5. dinode[i].type = "dir" /\ next # 0 => next \in Inum /\ dinode[next].nlink > 0 /\ Alive(next)
  BY <1>2, LookupLinked
<1> HIDE DEF next
<1>6. /\ loc'[p].op = l.op /\ loc'[p].arg = l.arg /\ loc'[p].old = l.old
      /\ \/ /\ ref' = ref /\ pc'[p] = "put" /\ At(p)' = Failed(l.op)
            /\ loc'[p].ip = 0 /\ loc'[p].dp = 0 /\ loc'[p].put = i
         \/ /\ dinode[i].type = "dir" /\ Parent(l.op) /\ ref' = ref
            /\ pc'[p] = Found(l.op) /\ At(p)' = Found(l.op) /\ loc'[p].path = l.path
            /\ loc'[p].ip = 0 /\ loc'[p].dp = i /\ loc'[p].put = 0
         \/ /\ dinode[i].type = "dir" /\ next # 0 /\ ref' = [ref EXCEPT ![next] = @ + 1]
            /\ pc'[p] = "put" /\ loc'[p].ip = next /\ loc'[p].dp = 0 /\ loc'[p].put = i
            /\ \/ At(p)' = "walk" /\ loc'[p].path # <<>>
               \/ ~Parent(l.op) /\ At(p)' = Found(l.op)
  <2>1. loc \in [Proc -> Local] /\ pc \in [Proc -> Label]
    BY <1>1 DEF TypeInv
  <2>2. CASE fails
    <3>1. /\ loc'[p].op = l.op /\ loc'[p].arg = l.arg /\ loc'[p].old = l.old
          /\ loc'[p].ip = 0 /\ loc'[p].dp = l.dp /\ loc'[p].put = i /\ loc'[p].after = Failed(l.op)
      BY <1>1, <2>1, <2>2 DEF Local
    <3> QED BY <1>2, <2>1, <2>2, <3>1 DEF At
  <2>3. CASE stops
    <3>1. /\ loc'[p].op = l.op /\ loc'[p].arg = l.arg /\ loc'[p].old = l.old
          /\ loc'[p].ip = 0 /\ loc'[p].dp = i /\ loc'[p].put = l.put /\ loc'[p].path = l.path
      BY <1>1, <2>1, <2>3 DEF Local
    <3> QED BY <1>2, <2>1, <2>3, <3>1 DEF At, Found, Parent
  <2>4. CASE goes
    <3>1. /\ loc'[p].op = l.op /\ loc'[p].arg = l.arg /\ loc'[p].old = l.old
          /\ loc'[p].ip = next /\ loc'[p].dp = l.dp /\ loc'[p].put = i
          /\ loc'[p].after = after /\ loc'[p].path = Tail(l.path)
      BY <1>1, <2>1, <2>4 DEF Local
    <3>2. At(p)' = after /\ pc'[p] = "put"
      BY <2>1, <2>4, <3>1 DEF At
    <3>3. \/ At(p)' = "walk" /\ loc'[p].path # <<>>
          \/ ~Parent(l.op) /\ At(p)' = Found(l.op)
      <4>1. CASE Len(l.path) = 1
        BY <2>4, <3>2, <4>1
      <4>2. CASE Len(l.path) # 1
        BY <1>2, <3>1, <3>2, <4>2, TailLeft
      <4> QED BY <4>1, <4>2
    <3> QED BY <1>2, <2>4, <3>1, <3>2, <3>3
  <2> QED BY <1>4, <2>2, <2>3, <2>4
<1>7. Place(p)'
  BY <1>2, <1>5, <1>6, Numbers DEF Place, PutPlace, Failed, Found, Parent, Walker, Maker
<1>8. /\ TypeInv' /\ Moves(p) /\ CacheInv' /\ valid' = valid \union {i}
  <2>1. core' \in [Inum -> Inode] /\ valid' \subseteq Inum /\ CacheInv' /\ valid' = valid \union {i}
    BY <1>1, <1>2, <1>4, LoadKeeps, Parts
  <2>2. loc' \in [Proc -> Local]
    <3>1. /\ Failed(l.op) \in Label /\ Found(l.op) \in Label /\ "walk" \in Label
          /\ Tail(l.path) \in Seq(Name)
      BY <1>2 DEF Failed, Found, Label, Walker, Maker
    <3>2. fails => [l EXCEPT !.ip = 0, !.put = i, !.after = Failed(l.op)] \in Local
      BY <1>1, <1>2, <3>1 DEF Local, Maybe
    <3>3. stops => [l EXCEPT !.dp = i, !.ip = 0] \in Local
      BY <1>1, <1>2 DEF Local, Maybe
    <3>4. goes => [l EXCEPT !.ip = next, !.path = Tail(l.path), !.put = i, !.after = after]
                    \in Local
      <4>1. goes => next \in Maybe /\ i \in Maybe /\ after \in Label
        BY <1>2, <1>5, <3>1 DEF Maybe
      <4> HIDE DEF after
      <4> QED BY <1>1, <3>1, <4>1 DEF Local
    <3> QED BY <1>1, <1>4, <3>2, <3>3, <3>4 DEF TypeInv
  <2>3. pc' \in [Proc -> Label] /\ ref' \in [Inum -> Nat]
    <3>1. Found(l.op) \in Label /\ "put" \in Label
      BY <1>2 DEF Found, Label, PutPlace, Walker, Maker
    <3> QED BY <1>1, <1>4, <1>5, <3>1 DEF TypeInv
  <2>4. Moves(p)
    BY <1>1, <1>4 DEF TypeInv, Moves
  <2> QED BY <1>1, <1>4, <2>1, <2>2, <2>3, <2>4 DEF TypeInv
<1>9. Locked(p)' = {} /\ Locked(p) = {} /\ Fresh(p)' = 0
  BY <1>1, <1>2, <1>6 DEF Locked, Fresh, Failed, Found, Parent, Walker, Maker
<1>10. Held(p)'
  <2>1. HeldMade(p)' /\ HeldFree(p)' /\ HeldName(p)'
    BY <1>2, <1>6, <1>9 DEF HeldMade, HeldFree, HeldName, Failed, Found, Parent, Walker, Maker
  <2>2. HeldRefs(p)'
    BY <1>2, <1>4, <1>5, <1>6 DEF HeldRefs, Alive
  <2> QED BY <2>1, <2>2 DEF Held
<1>11. ASSUME NEW x \in Inum
       PROVE  /\ ref'[x] - Own(p, x)' = ref[x] - Own(p, x)
              /\ p \in Pending(x)' => p \in Pending(x)
              /\ ref'[x] # ref[x] => dinode[x].nlink > 0
  <2>1. p \in Pending(x)' => p \in Pending(x)
    BY <1>1, <1>2, <1>6 DEF Pending, Failed, Found, Parent, Walker, Maker
  <2>2. \/ ref'[x] = ref[x] /\ Own(p, x)' = Own(p, x)
        \/ /\ next \in Inum /\ ref'[x] = ref[x] + Bit(next = x) /\ dinode[next].nlink > 0
           /\ Own(p, x)' = Own(p, x) + Bit(next = x)
    <3>1. ref' = [ref EXCEPT ![next] = @ + 1] => ref'[x] = ref[x] + Bit(next = x)
      BY <1>1 DEF Bit, TypeInv
    <3>2. loc'[p].old = l.old /\ ofile'[p] = ofile[p] /\ l.dp = 0 /\ l.put = 0 /\ i # 0
      BY <1>2, <1>4, <1>6, Numbers
    <3>3. \/ /\ ref' = ref /\ \/ loc'[p].ip = 0 /\ loc'[p].dp = 0 /\ loc'[p].put = i
                              \/ loc'[p].ip = 0 /\ loc'[p].dp = i /\ loc'[p].put = 0
          \/ /\ next \in Inum /\ dinode[next].nlink > 0 /\ ref'[x] = ref[x] + Bit(next = x)
             /\ loc'[p].ip = next /\ loc'[p].dp = 0 /\ loc'[p].put = i
      BY <1>5, <1>6, <3>1
    <3> QED BY <3>2, <3>3, Numbers DEF Own, Bit
  <2>3. ref[x] \in Nat /\ Own(p, x) \in Nat
    BY <1>1 DEF TypeInv, Own, Bit
  <2> QED BY <2>1, <2>2, <2>3 DEF Bit
<1> QED BY <1>4, <1>7, <1>8, <1>9, <1>10, <1>11, QuietStep

(***************************************************************************)
(* The ends of calls.                                                      *)
(***************************************************************************)

\* The call of p is over, but for iput(i) if i is not 0.
Ends(p, i) ==
  /\ pc' \in [Proc -> Label] /\ loc' \in [Proc -> Local]
  /\ \A q \in Proc \ {p} : pc'[q] = pc[q] /\ loc'[q] = loc[q]
  /\ Place(p)' /\ Locked(p)' = {} /\ Fresh(p)' = 0
  /\ \A x \in Inum : /\ Own(p, x)' = Bit(ofile'[p] = x) + Bit(i = x)
                     /\ p \notin Pending(x)'
  /\ (/\ ofile'[p] # 0 => dinode'[ofile'[p]].type # "free"
      /\ i # 0 => dinode'[i].type # "free") => Held(p)'

LEMMA GiveBack ==
  ASSUME TypeInv, NEW p \in Proc, NEW i \in Inum, Put(p, Idle, i, "user")
  PROVE  Ends(p, i)
<1>1. /\ pc' = [pc EXCEPT ![p] = "put"]
      /\ loc' = [loc EXCEPT ![p] = [Idle EXCEPT !.put = i, !.after = "user"]]
  BY DEF Put, Goto
<1>2. i # 0
  BY Numbers
<1>3. /\ pc' \in [Proc -> Label] /\ loc' \in [Proc -> Local]
      /\ \A q \in Proc \ {p} : pc'[q] = pc[q] /\ loc'[q] = loc[q]
  <2>1. [Idle EXCEPT !.put = i, !.after = "user"] \in Local
    BY IdleTyped DEF Local, Maybe, Label
  <2> QED BY <1>1, <2>1 DEF TypeInv, Label, PutPlace
<1>4. /\ pc'[p] = "put" /\ loc'[p].op = "none" /\ loc'[p].ip = 0 /\ loc'[p].dp = 0
      /\ loc'[p].old = 0 /\ loc'[p].put = i /\ loc'[p].after = "user"
  BY <1>1 DEF TypeInv, Idle
<1>5. At(p)' = "user"
  BY <1>4 DEF At
<1>6. Place(p)' /\ Locked(p)' = {} /\ Fresh(p)' = 0
  BY <1>2, <1>4, <1>5 DEF Place, PutPlace, Locked, Fresh
<1>7. ASSUME NEW x \in Inum
      PROVE  Own(p, x)' = Bit(ofile'[p] = x) + Bit(i = x) /\ p \notin Pending(x)'
  BY <1>4, <1>5, Numbers DEF Own, Bit, Pending
<1>8. ASSUME ofile'[p] # 0 => dinode'[ofile'[p]].type # "free", dinode'[i].type # "free"
      PROVE  Held(p)'
  <2>1. HeldRefs(p)'
    BY <1>4, <1>8 DEF HeldRefs, Alive
  <2> QED BY <1>4, <1>5, <1>6, <2>1 DEF Held, HeldMade, HeldFree, HeldName
<1> QED BY <1>2, <1>3, <1>6, <1>7, <1>8 DEF Ends

LEMMA Returns ==
  ASSUME TypeInv, NEW p \in Proc, Return(p)
  PROVE  Ends(p, 0)
<1>1. pc' = [pc EXCEPT ![p] = "user"] /\ loc' = [loc EXCEPT ![p] = Idle]
  BY DEF Return, Goto
<1>2. /\ pc' \in [Proc -> Label] /\ loc' \in [Proc -> Local]
      /\ \A q \in Proc \ {p} : pc'[q] = pc[q] /\ loc'[q] = loc[q]
  BY <1>1, IdleTyped DEF TypeInv, Label
<1>3. /\ pc'[p] = "user" /\ loc'[p].op = "none" /\ loc'[p].ip = 0 /\ loc'[p].dp = 0
      /\ loc'[p].old = 0 /\ loc'[p].put = 0
  BY <1>1 DEF TypeInv, Idle
<1>4. At(p)' = "user"
  BY <1>3 DEF At
<1>5. Place(p)' /\ Locked(p)' = {} /\ Fresh(p)' = 0
  BY <1>3, <1>4 DEF Place, PutPlace, Locked, Fresh
<1>6. ASSUME NEW x \in Inum
      PROVE  Own(p, x)' = Bit(ofile'[p] = x) + Bit(0 = x) /\ p \notin Pending(x)'
  BY <1>3, <1>4, Numbers DEF Own, Bit, Pending
<1>7. ASSUME ofile'[p] # 0 => dinode'[ofile'[p]].type # "free"
      PROVE  Held(p)'
  <2>1. HeldRefs(p)'
    BY <1>3, <1>7 DEF HeldRefs, Alive
  <2> QED BY <1>3, <1>4, <1>5, <2>1 DEF Held, HeldMade, HeldFree, HeldName
<1> QED BY <1>2, <1>5, <1>6, <1>7 DEF Ends

\* The descriptor or iput() takes the reference of the call.
LEMMA OpenedEnds ==
  ASSUME TypeInv, NEW p \in Proc, NEW i \in Inum, Opened(p, i), dinode' = dinode,
         Alive(i), ofile[p] # 0 => Alive(ofile[p])
  PROVE  /\ ofile' \in [Proc -> Maybe] /\ Moves(p) /\ Held(p)'
         /\ \E j \in Maybe : Ends(p, j)
         /\ \A x \in Inum : Own(p, x)' = Bit(ofile[p] = x) + Bit(i = x)
<1>1. CASE ofile[p] = 0
  <2>1. ofile' = [ofile EXCEPT ![p] = i] /\ ofile'[p] = i /\ Ends(p, 0)
    BY <1>1, Returns DEF Opened, TypeInv
  <2>2. ofile' \in [Proc -> Maybe] /\ Moves(p) /\ Held(p)'
    BY <2>1 DEF TypeInv, Maybe, Ends, Moves, Alive
  <2>3. \A x \in Inum : Own(p, x)' = Bit(ofile[p] = x) + Bit(i = x)
    BY <1>1, <2>1, Numbers DEF Ends, Bit
  <2> QED BY <2>1, <2>2, <2>3 DEF Maybe
<1>2. CASE ofile[p] # 0
  <2>1. ofile' = ofile /\ Ends(p, i)
    BY <1>2, GiveBack DEF Opened
  <2>2. ofile' \in [Proc -> Maybe] /\ Moves(p) /\ Held(p)'
    BY <1>2, <2>1 DEF TypeInv, Ends, Moves, Alive
  <2> QED BY <2>1, <2>2 DEF Maybe, Ends
<1> QED BY <1>1, <1>2

\* What the descriptor of a process and the inode it works on are.
LEMMA Fields ==
  ASSUME IInv, NEW p \in Proc
  PROVE  /\ pc[p] \in Label /\ loc[p] \in Local /\ ofile[p] \in Maybe
         /\ loc[p].ip \in Maybe /\ loc[p].dp \in Maybe /\ loc[p].old \in Maybe
         /\ loc[p].put \in Maybe
         /\ ofile[p] # 0 => ofile[p] \in Inum /\ Alive(ofile[p])
         /\ loc[p].ip # 0 => loc[p].ip \in Inum /\ Alive(loc[p].ip) /\ Typed(loc[p].ip)
         /\ loc[p].dp # 0 => /\ loc[p].dp \in Inum /\ dinode[loc[p].dp].type = "dir"
                             /\ Typed(loc[p].dp)
         /\ loc[p].old # 0 => /\ loc[p].old \in Inum /\ Alive(loc[p].old)
                              /\ Typed(loc[p].old)
                              /\ dinode[loc[p].old].type \in {"file", "sym"}
         /\ \A x \in Inum : /\ Own(p, x) \in Nat /\ ref[x] \in Nat
                            /\ holder[x] = p => x \in Locked(p) \/ Lost(x, p)
                            /\ x \in Locked(p) => holder[x] = p /\ x \in valid
         /\ p # NoProc
<1>1. /\ pc[p] \in Label /\ loc[p] \in Local /\ ofile[p] \in Maybe
      /\ loc[p].ip \in Maybe /\ loc[p].dp \in Maybe /\ loc[p].old \in Maybe
      /\ loc[p].put \in Maybe
  BY Parts DEF TypeInv, Local
<1>2. \A i \in Inum : Alive(i) => Typed(i)
  BY Parts DEF Typed, Alive
<1>3. HeldRefs(p)
  BY Parts DEF Held
<1> QED BY <1>1, <1>2, <1>3, Parts, ProcAssumption
        DEF HeldRefs, Alive, Maybe, TypeInv, Own, Bit, LocksMatch, LoadedInv

\* The call keeps its descriptor and drops its only inode.
LEMMA GivenEnds ==
  ASSUME IInv, NEW p \in Proc, NEW i \in Inum, Put(p, Idle, i, "user"), UNCHANGED ofile,
         dinode' = dinode, Alive(i)
  PROVE  /\ ofile' \in [Proc -> Maybe] /\ Moves(p) /\ Held(p)'
         /\ \E j \in Maybe : Ends(p, j)
         /\ \A x \in Inum : Own(p, x)' = Bit(ofile[p] = x) + Bit(i = x)
<1>1. Ends(p, i) /\ ofile \in [Proc -> Maybe]
  BY Parts, GiveBack DEF TypeInv
<1>2. ofile[p] # 0 => Alive(ofile[p])
  BY Fields
<1>3. Moves(p) /\ Held(p)'
  BY <1>1, <1>2 DEF Ends, Moves, Alive
<1>4. \A x \in Inum : Own(p, x)' = Bit(ofile[p] = x) + Bit(i = x)
  BY <1>1 DEF Ends
<1> QED BY <1>1, <1>3, <1>4 DEF Maybe

LEMMA ExistsStep ==
  ASSUME IInv, NEW p \in Proc, Exists(p)
  PROVE  IInv'
<1> DEFINE l == loc[p]  i == l.ip
<1>1. pc[p] = "exists" /\ At(p) = "exists" /\ Place(p) /\ TypeInv /\ CacheInv
  BY Parts DEF Exists, Runs, At
<1>2. i \in Inum /\ Alive(i) /\ Typed(i) /\ l.dp = 0 /\ l.old = 0 /\ l.put = 0
  BY <1>1, Fields DEF Place, PutPlace
<1>3. /\ Load({i})
      /\ Opened(p, i) \/ (Put(p, Idle, i, "user") /\ UNCHANGED ofile)
      /\ UNCHANGED <<disk, dinode, bitmap, block, ref, holder, panic>>
  BY <1>1, <1>2 DEF Exists, Ilock, disk
<1>4. /\ ofile' \in [Proc -> Maybe] /\ Moves(p) /\ Held(p)'
      /\ \E j \in Maybe : Ends(p, j)
      /\ \A x \in Inum : Own(p, x)' = Bit(ofile[p] = x) + Bit(i = x)
  <2>1. CASE Opened(p, i)
    BY <1>1, <1>2, <1>3, <2>1, Fields, OpenedEnds
  <2>2. CASE Put(p, Idle, i, "user") /\ UNCHANGED ofile
    BY <1>1, <1>2, <1>3, <2>2, GivenEnds
  <2> QED BY <1>3, <2>1, <2>2
<1>5. /\ core' \in [Inum -> Inode] /\ valid' \subseteq Inum /\ CacheInv'
      /\ valid' = valid \union {i}
  BY <1>1, <1>2, <1>3, LoadKeeps
<1>6. TypeInv'
  BY <1>1, <1>3, <1>4, <1>5 DEF TypeInv, Ends
<1>7. Locked(p) = {}
  BY <1>1 DEF Locked
<1>8. \A x \in Inum : Own(p, x)' = Own(p, x)
  BY <1>2, <1>4, Numbers DEF Own, Bit
<1> QED BY <1>3, <1>4, <1>5, <1>6, <1>7, <1>8, QuietStep DEF Ends

LEMMA CreatedStep ==
  ASSUME IInv, NEW p \in Proc, Created(p)
  PROVE  IInv'
<1> DEFINE l == loc[p]  i == l.ip
           writes == /\ l.op = "symlink" /\ ofile[p] = 0 /\ ofile' = [ofile EXCEPT ![p] = i]
                     /\ pc' = [pc EXCEPT ![p] = "write_link"]
                     /\ loc' = [loc EXCEPT ![p] = [Idle EXCEPT !.op = "write", !.arg = l.arg]]
<1>1. pc[p] = "created" /\ At(p) = "created" /\ Place(p) /\ Held(p) /\ TypeInv /\ CacheInv
  BY Parts DEF Created, Runs, At
<1>2. i \in Inum /\ i # 0 /\ Alive(i) /\ l.dp = 0 /\ l.old = 0 /\ l.put = 0
  BY <1>1, Fields DEF Place, PutPlace
<1>3. /\ holder' = [holder EXCEPT ![i] = NoProc]
      /\ writes \/ Opened(p, i) \/ (Put(p, Idle, i, "user") /\ UNCHANGED ofile)
      /\ UNCHANGED <<disk, dinode, bitmap, block, core, valid, ref, panic>>
  BY DEF Created, Goto, disk
<1>4. /\ Locked(p) = {i}
      /\ l.op = "symlink" => Fresh(p) = i /\ dinode[i].type = "sym" /\ dinode[i].addr = 0
  BY <1>1, <1>2 DEF Locked, Fresh, Held, HeldMade
<1>5. /\ ofile' \in [Proc -> Maybe] /\ loc' \in [Proc -> Local] /\ pc' \in [Proc -> Label]
      /\ Moves(p) /\ Place(p)' /\ Held(p)' /\ Locked(p)' = {} /\ Fresh(p)' \in {0, Fresh(p)}
      /\ \A x \in Inum : Own(p, x)' = Bit(ofile[p] = x) + Bit(i = x) /\ p \notin Pending(x)'
  <2>1. CASE writes
    <3>1. /\ pc'[p] = "write_link" /\ ofile'[p] = i /\ loc'[p].op = "write" /\ loc'[p].arg = l.arg
          /\ loc'[p].ip = 0 /\ loc'[p].dp = 0 /\ loc'[p].old = 0 /\ loc'[p].put = 0
      BY <1>1, <2>1 DEF TypeInv, Idle
    <3>2. At(p)' = "write_link" /\ Fresh(p)' = i /\ l.arg \in Path
      BY <1>1, <2>1, <3>1 DEF At, Fresh, Place
    <3>3. Place(p)'
      BY <1>2, <3>1, <3>2 DEF Place, PutPlace
    <3>4. Held(p)'
      <4>1. HeldRefs(p)'
        BY <1>2, <1>3, <3>1 DEF HeldRefs, Alive
      <4> QED BY <1>3, <1>4, <2>1, <3>1, <3>2, <4>1 DEF Held, HeldMade, HeldFree, HeldName
    <3>5. [Idle EXCEPT !.op = "write", !.arg = l.arg] \in Local
      BY <1>1, Fields, IdleTyped DEF Local
    <3>6. /\ ofile' \in [Proc -> Maybe] /\ loc' \in [Proc -> Local] /\ pc' \in [Proc -> Label]
          /\ Moves(p)
      BY <1>1, <1>2, <2>1, <3>5 DEF TypeInv, Moves, Maybe, Label
    <3>7. Locked(p)' = {}
      BY <3>1, <3>2 DEF Locked
    <3>8. \A x \in Inum : Own(p, x)' = Bit(ofile[p] = x) + Bit(i = x) /\ p \notin Pending(x)'
      BY <2>1, <3>1, <3>2, Numbers DEF Own, Bit, Pending
    <3> QED BY <1>4, <2>1, <3>2, <3>3, <3>4, <3>6, <3>7, <3>8
  <2>2. CASE Opened(p, i)
    BY <1>1, <1>2, <1>3, <2>2, Fields, OpenedEnds DEF Ends
  <2>3. CASE Put(p, Idle, i, "user") /\ UNCHANGED ofile
    BY <1>2, <1>3, <2>3, GivenEnds DEF Ends
  <2> QED BY <1>3, <2>1, <2>2, <2>3
<1>6. TypeInv' /\ CacheInv'
  BY <1>1, <1>3, <1>5 DEF TypeInv, CacheInv
<1>7. \A x \in Inum : /\ Own(p, x)' = Own(p, x)
                      /\ holder'[x] = IF x \in Locked(p) THEN NoProc ELSE holder[x]
  BY <1>1, <1>2, <1>3, <1>4, <1>5, Numbers DEF Own, Bit, TypeInv
<1> QED BY <1>3, <1>5, <1>6, <1>7, QuietStep

LEMMA UnlinkStep ==
  ASSUME IInv, NEW p \in Proc, Unlink(p)
  PROVE  IInv'
<1> DEFINE l == loc[p]  i == l.dp  x == Lookup(i, Head(l.path))
           finds == /\ x # 0 /\ ref' = [ref EXCEPT ![x] = @ + 1]
                    /\ holder' = [holder EXCEPT ![i] = p]
                    /\ pc' = [pc EXCEPT ![p] = "unlink_ip"]
                    /\ loc' = [loc EXCEPT ![p].ip = x]
<1>1. pc[p] = "unlink" /\ At(p) = "unlink" /\ Place(p) /\ TypeInv /\ CacheInv
  BY Parts DEF Unlink, Runs, At
<1>2. /\ i \in Inum /\ i # 0 /\ dinode[i].type = "dir" /\ Alive(i) /\ Typed(i)
      /\ l.ip = 0 /\ l.old = 0 /\ l.put = 0 /\ l.path # <<>>
  BY <1>1, Fields DEF Place, PutPlace, Alive
<1>3. /\ Load({i}) /\ holder[i] = NoProc
      /\ finds \/ (Put(p, Idle, i, "user") /\ UNCHANGED <<ref, holder>>)
      /\ UNCHANGED <<disk, dinode, bitmap, block, ofile, panic>>
  BY <1>2 DEF Unlink, Ilock, Free, Get, Goto, disk
<1>4. /\ core' \in [Inum -> Inode] /\ valid' \subseteq Inum /\ CacheInv'
      /\ valid' = valid \union {i}
  BY <1>1, <1>2, <1>3, LoadKeeps
<1>5. Locked(p) = {}
  BY <1>1 DEF Locked
<1>6. CASE Put(p, Idle, i, "user") /\ UNCHANGED <<ref, holder>>
  <2>1. /\ ofile' \in [Proc -> Maybe] /\ Moves(p) /\ Held(p)'
        /\ \E j \in Maybe : Ends(p, j)
        /\ \A y \in Inum : Own(p, y)' = Bit(ofile[p] = y) + Bit(i = y)
    BY <1>2, <1>3, <1>6, GivenEnds
  <2>2. TypeInv'
    BY <1>1, <1>3, <1>4, <1>6, <2>1 DEF TypeInv, Ends
  <2>3. \A y \in Inum : Own(p, y)' = Own(p, y)
    BY <1>2, <2>1, Numbers DEF Own, Bit
  <2> QED BY <1>3, <1>4, <1>5, <1>6, <2>1, <2>2, <2>3, QuietStep DEF Ends
<1>7. CASE finds
  <2>1. /\ x \in Inum /\ x # 0 /\ dinode[x].nlink > 0 /\ Alive(x)
        /\ \E k \in Slot : LET e == block[dinode[i].addr].slot[k]
                           IN  e.inum = x /\ e.name = Head(l.path)
    BY <1>2, <1>7, LookupLinked, Numbers
  <2> HIDE DEF x
  <2>2. /\ pc'[p] = "unlink_ip" /\ loc'[p].op = l.op /\ loc'[p].path = l.path
        /\ loc'[p].arg = l.arg /\ loc'[p].ip = x /\ loc'[p].dp = i /\ loc'[p].old = 0
        /\ loc'[p].put = 0
    BY <1>1, <1>2, <1>7 DEF TypeInv, Local
  <2>3. At(p)' = "unlink_ip"
    BY <2>2 DEF At
  <2>4. Place(p)'
    BY <1>1, <1>2, <2>1, <2>2, <2>3 DEF Place, PutPlace
  <2>5. Held(p)'
    <3>1. HeldRefs(p)'
      BY <1>2, <1>3, <2>1, <2>2, Fields DEF HeldRefs, Alive
    <3> QED BY <1>3, <2>1, <2>2, <2>3, <3>1 DEF Held, HeldMade, HeldFree, HeldName, Fresh
  <2>6. Locked(p)' = {i} /\ Fresh(p)' = 0
    BY <1>2, <2>2, <2>3 DEF Locked, Fresh
  <2>7. TypeInv' /\ Moves(p)
    <3>1. [l EXCEPT !.ip = x] \in Local
      BY <2>1, Fields DEF Local, Maybe
    <3>2. loc' = [loc EXCEPT ![p] = [l EXCEPT !.ip = x]]
      BY <1>7 DEF x
    <3> QED BY <1>1, <1>3, <1>4, <1>7, <2>1, <3>1, <3>2 DEF TypeInv, Label, Moves
  <2>8. ASSUME NEW y \in Inum
        PROVE  /\ ref'[y] - Own(p, y)' = ref[y] - Own(p, y)
               /\ p \notin Pending(y)'
               /\ ref'[y] # ref[y] => dinode[y].nlink > 0
               /\ holder'[y] = IF y \in Locked(p)' THEN p ELSE holder[y]
    <3>1. ref'[y] = ref[y] + Bit(x = y) /\ holder'[y] = IF y = i THEN p ELSE holder[y]
      BY <1>1, <1>7 DEF TypeInv, Bit
    <3>2. Own(p, y)' = Own(p, y) + Bit(x = y) /\ p \notin Pending(y)'
      BY <1>2, <1>3, <2>1, <2>2, <2>3, Numbers DEF Own, Bit, Pending
    <3> QED BY <2>1, <2>6, <3>1, <3>2, Fields DEF Bit
  <2> QED BY <1>3, <1>4, <1>5, <2>4, <2>5, <2>6, <2>7, <2>8, QuietStep
<1> QED BY <1>3, <1>6, <1>7

LEMMA UnlinkBadStep ==
  ASSUME IInv, NEW p \in Proc, UnlinkBad(p)
  PROVE  IInv'
<1> DEFINE l == loc[p]  i == l.dp
<1>1. pc[p] = "unlink_bad" /\ At(p) = "unlink_bad" /\ Place(p) /\ TypeInv /\ CacheInv
  BY Parts DEF UnlinkBad, Runs, At
<1>2. i \in Inum /\ i # 0 /\ Alive(i) /\ l.ip = 0 /\ l.old = 0 /\ l.put = 0 /\ Locked(p) = {i}
  BY <1>1, Fields DEF Place, PutPlace, Alive, Locked
<1>3. /\ holder' = [holder EXCEPT ![i] = NoProc] /\ Put(p, Idle, i, "user")
      /\ UNCHANGED <<disk, dinode, bitmap, block, core, valid, ref, ofile, panic>>
  BY DEF UnlinkBad, disk
<1>4. /\ ofile' \in [Proc -> Maybe] /\ Moves(p) /\ Held(p)'
      /\ \E j \in Maybe : Ends(p, j)
      /\ \A x \in Inum : Own(p, x)' = Bit(ofile[p] = x) + Bit(i = x)
  BY <1>2, <1>3, GivenEnds
<1>5. TypeInv' /\ CacheInv'
  BY <1>1, <1>3, <1>4 DEF TypeInv, Ends, CacheInv
<1>6. \A x \in Inum : /\ Own(p, x)' = Own(p, x)
                      /\ holder'[x] = IF x \in Locked(p) THEN NoProc ELSE holder[x]
  BY <1>1, <1>2, <1>3, <1>4, Numbers DEF Own, Bit, TypeInv
<1> QED BY <1>3, <1>4, <1>5, <1>6, QuietStep DEF Ends

LEMMA LinkDoneStep ==
  ASSUME IInv, NEW p \in Proc, LinkDone(p)
  PROVE  IInv'
<1> DEFINE l == loc[p]  i == l.old
<1>1. pc[p] = "link_done" /\ At(p) = "link_done" /\ Place(p) /\ TypeInv /\ CacheInv
  BY Parts DEF LinkDone, Runs, At
<1>2. i \in Inum /\ i # 0 /\ Alive(i) /\ l.ip = 0 /\ l.dp = 0 /\ l.put = 0 /\ Locked(p) = {}
  BY <1>1, Fields DEF Place, PutPlace, Locked
<1>3. /\ Put(p, Idle, i, "user")
      /\ UNCHANGED <<disk, dinode, bitmap, block, core, valid, ref, holder, ofile, panic>>
  BY DEF LinkDone, disk, cache
<1>4. /\ ofile' \in [Proc -> Maybe] /\ Moves(p) /\ Held(p)'
      /\ \E j \in Maybe : Ends(p, j)
      /\ \A x \in Inum : Own(p, x)' = Bit(ofile[p] = x) + Bit(i = x)
  BY <1>2, <1>3, GivenEnds
<1>5. TypeInv' /\ CacheInv'
  BY <1>1, <1>3, <1>4 DEF TypeInv, Ends, CacheInv
<1>6. \A x \in Inum : Own(p, x)' = Own(p, x)
  BY <1>1, <1>2, <1>3, <1>4, Numbers DEF Own, Bit
<1> QED BY <1>2, <1>3, <1>4, <1>5, <1>6, QuietStep DEF Ends

LEMMA LinkDupStep ==
  ASSUME IInv, NEW p \in Proc, LinkDup(p)
  PROVE  IInv'
<1> DEFINE l == loc[p]  i == l.dp
<1>1. /\ pc[p] = "link_dup" /\ At(p) = "link_dup" /\ Place(p) /\ Held(p) /\ TypeInv /\ CacheInv
      /\ l \in Local
  BY Parts, Fields DEF LinkDup, Runs, At
<1>2. /\ i \in Inum /\ i # 0 /\ Alive(i) /\ l.ip = 0 /\ l.old # 0 /\ l.put = 0 /\ Locked(p) = {i}
      /\ l.op \in {"symlink", "link", "write"} => l.arg \in Path
  BY <1>1, Fields DEF Place, PutPlace, Alive, Locked
<1>3. /\ holder' = [holder EXCEPT ![i] = NoProc] /\ pc' = [pc EXCEPT ![p] = "put"]
      /\ loc' = [loc EXCEPT ![p] = [[l EXCEPT !.dp = 0] EXCEPT !.put = i, !.after = "link_bad"]]
      /\ UNCHANGED <<disk, dinode, bitmap, block, core, valid, ref, ofile, panic>>
  BY DEF LinkDup, disk, Put, Goto
<1>4. /\ pc'[p] = "put" /\ loc'[p].op = l.op /\ loc'[p].arg = l.arg /\ loc'[p].ip = 0
      /\ loc'[p].dp = 0 /\ loc'[p].old = l.old /\ loc'[p].put = i /\ loc'[p].after = "link_bad"
  BY <1>1, <1>2, <1>3 DEF TypeInv, Local
<1>5. At(p)' = "link_bad"
  BY <1>4 DEF At
<1>6. Place(p)' /\ Locked(p)' = {} /\ Fresh(p)' = 0
  BY <1>2, <1>4, <1>5 DEF Place, PutPlace, Locked, Fresh
<1>7. Held(p)'
  <2>1. HeldRefs(p)'
    BY <1>2, <1>3, <1>4, Fields DEF HeldRefs, Alive
  <2> QED BY <1>4, <1>5, <1>6, <2>1 DEF Held, HeldMade, HeldFree, HeldName
<1>8. TypeInv' /\ Moves(p) /\ CacheInv'
  <2>1. [[l EXCEPT !.dp = 0] EXCEPT !.put = i, !.after = "link_bad"] \in Local
    BY <1>1, <1>2 DEF Local, Maybe, Label
  <2> QED BY <1>1, <1>3, <2>1 DEF TypeInv, Moves, CacheInv, Label, PutPlace
<1>9. \A x \in Inum : /\ Own(p, x)' = Own(p, x)
                      /\ holder'[x] = IF x \in Locked(p) THEN NoProc ELSE holder[x]
                      /\ p \in Pending(x)' => p \in Pending(x)
  BY <1>1, <1>2, <1>3, <1>4, <1>5, Numbers DEF Own, Bit, TypeInv, Pending
<1> QED BY <1>3, <1>6, <1>7, <1>8, <1>9, QuietStep

\* open() may follow a link, and may return with a directory locked.
LEMMA OpenLockStep ==
  ASSUME IInv, NEW p \in Proc, OpenLock(p)
  PROVE  IInv'
<1> DEFINE l == loc[p]  i == l.ip
           m(t) == [l EXCEPT !.op = "opensym", !.path = t]
           follows == /\ dinode[i].type = "sym" /\ \E t \in Targets(i) : Walk(p, m(t))
                      /\ UNCHANGED <<holder, ofile>>
           loses == /\ dinode[i].type = "dir" /\ holder' = [holder EXCEPT ![i] = p]
                    /\ Return(p) /\ UNCHANGED <<ref, ofile>>
           ends == /\ Opened(p, i) \/ (Put(p, Idle, i, "user") /\ UNCHANGED ofile)
                   /\ UNCHANGED <<ref, holder>>
<1>1. /\ pc[p] = "open" /\ At(p) = "open" /\ Place(p) /\ Held(p) /\ TypeInv /\ CacheInv
      /\ l \in Local /\ LocksMatch /\ RefInv
  BY Parts, Fields DEF OpenLock, Runs, At
<1>2. /\ i \in Inum /\ i # 0 /\ Alive(i) /\ Typed(i) /\ Loaded(i) = dinode[i]
      /\ l.dp = 0 /\ l.old = 0 /\ l.put = 0
  BY <1>1, Fields, Parts DEF Place, PutPlace
<1>3. /\ Load({i}) /\ holder[i] = NoProc
      /\ UNCHANGED <<disk, dinode, bitmap, block, panic>>
  BY <1>2 DEF OpenLock, Ilock, Free, disk
<1>4. follows \/ loses \/ ends
  BY <1>2 DEF OpenLock, Ilock
<1>5. /\ core' \in [Inum -> Inode] /\ valid' \subseteq Inum /\ CacheInv'
      /\ valid' = valid \union {i}
  BY <1>1, <1>2, <1>3, LoadKeeps
<1>6. /\ Locked(p) = {} /\ \A x \in Inum : Own(p, x) = Bit(ofile[p] = x) + Bit(i = x)
  BY <1>1, <1>2, Numbers DEF Locked, Own, Bit
<1>7. CASE ends
  <2>1. /\ ofile' \in [Proc -> Maybe] /\ Moves(p) /\ Held(p)'
        /\ \E j \in Maybe : Ends(p, j)
        /\ \A x \in Inum : Own(p, x)' = Bit(ofile[p] = x) + Bit(i = x)
    <3>1. CASE Opened(p, i)
      BY <1>1, <1>2, <1>3, <3>1, Fields, OpenedEnds
    <3>2. CASE Put(p, Idle, i, "user") /\ UNCHANGED ofile
      BY <1>2, <1>3, <3>2, GivenEnds
    <3> QED BY <1>7, <3>1, <3>2
  <2>2. TypeInv'
    BY <1>1, <1>3, <1>5, <1>7, <2>1 DEF TypeInv, Ends
  <2> QED BY <1>3, <1>5, <1>6, <1>7, <2>1, <2>2, QuietStep DEF Ends
<1>8. CASE loses
  <2>1. PICK d \in Inum : d = i
    BY <1>2
  <2>2. Ends(p, 0)
    BY <1>1, <1>8, Returns
  <2>3. TypeInv' /\ Moves(p) /\ Held(p)'
    BY <1>1, <1>2, <1>3, <1>5, <1>8, <2>2, Fields DEF TypeInv, Ends, Moves, Alive
  <2>4. ASSUME NEW x \in Inum
        PROVE  /\ ref'[x] = ref[x] /\ ref[x] \in Nat
               /\ Own(p, x) = Own(p, x)' + Bit(d = x) /\ Own(p, x)' \in Nat
               /\ holder'[x] = IF x = d THEN p ELSE holder[x]
    BY <1>1, <1>6, <1>8, <2>1, <2>2, Numbers DEF Ends, Bit, TypeInv
  <2>5. ASSUME NEW x \in Inum
        PROVE  /\ ref'[x] - Own(p, x)' >= ref[x] - Own(p, x)
               /\ ref'[x] - Own(p, x)' > ref[x] - Own(p, x) <=> x = d
    BY <2>4 DEF Bit
  <2>6. Locked(p)' = {} /\ {d} \in SUBSET Inum
    BY <2>2 DEF Ends
  <2>7. \A x \in {d} : /\ holder[x] = NoProc /\ x \notin Locked(p)' /\ dinode'[x].type = "dir"
                        /\ ref'[x] - Own(p, x)' > ref[x] - Own(p, x)
    BY <1>3, <1>8, <2>1, <2>5, <2>6
  <2>8. \A x \in Inum : holder'[x] = IF x \in Locked(p)' \/ x \in {d} THEN p
                                     ELSE IF x \in Locked(p) THEN NoProc ELSE holder[x]
    BY <1>6, <2>4, <2>6
  <2>9. LocksMatch' /\ RefInv'
    <3> HIDE DEF loses
    <3> QED BY <1>1, <1>3, <2>3, <2>5, <2>6, <2>7, <2>8, LocksAndRefsLost
  <2> QED BY <1>3, <1>5, <1>8, <2>2, <2>3, <2>9, QuietRest DEF Ends
<1>9. CASE follows
  <2>1. PICK t \in Targets(i) : Walk(p, m(t))
    BY <1>9
  <2>2. t \in Path
    <3>1. /\ dinode[i].size = IF dinode[i].addr = 0 THEN 0 ELSE 1
          /\ dinode[i].addr # 0 => block[dinode[i].addr].target \in Path
      BY <1>2, <1>9, Parts DEF DiskInv, Target
    <3> QED BY <1>2, <2>1, <3>1 DEF Targets
  <2>3. /\ m(t) \in Local /\ m(t).op = "opensym" /\ m(t).dp = 0 /\ m(t).put = 0 /\ m(t).old = 0
    BY <1>1, <1>2, <2>2, PathAssumption DEF Local, Walker
  <2> HIDE DEF m
  <2>4. /\ ref' = [ref EXCEPT ![RootInum] = @ + 1] /\ ref' \in [Inum -> Nat]
        /\ pc' \in [Proc -> Label] /\ loc' \in [Proc -> Local]
        /\ \A q \in Proc \ {p} : pc'[q] = pc[q] /\ loc'[q] = loc[q]
        /\ Place(p)' /\ Locked(p)' = {} /\ Fresh(p)' = 0
        /\ \A x \in Inum : /\ Own(p, x)' = Bit(ofile'[p] = x) + Bit(RootInum = x) + Bit(0 = x)
                           /\ p \in Pending(x)' <=> 0 = x
        /\ (/\ ofile'[p] # 0 => dinode'[ofile'[p]].type # "free"
            /\ dinode'[RootInum].type = "dir") => Held(p)'
    BY <1>1, <2>1, <2>3, WalkEffects DEF Walker
  <2>5. TypeInv' /\ Moves(p) /\ Held(p)'
    BY <1>1, <1>2, <1>3, <1>5, <1>9, <2>4, Fields, RootLinked DEF TypeInv, Moves, Alive
  <2>6. ASSUME NEW x \in Inum
        PROVE  /\ ref'[x] = ref[x] + Bit(RootInum = x) /\ ref[x] \in Nat
               /\ Own(p, x)' = Bit(ofile[p] = x) + Bit(RootInum = x)
               /\ Own(p, x) = Bit(ofile[p] = x) + Bit(i = x)
               /\ holder'[x] = holder[x] /\ p \notin Pending(x)'
    <3>1. x # 0 /\ ref[x] \in Nat /\ ref'[x] = ref[x] + Bit(RootInum = x)
      BY <1>1, <2>4, Numbers DEF Bit, TypeInv
    <3>2. Bit(ofile'[p] = x) + Bit(RootInum = x) + 0 = Bit(ofile[p] = x) + Bit(RootInum = x)
      BY <1>9 DEF Bit
    <3>3. Own(p, x)' = Bit(ofile'[p] = x) + Bit(RootInum = x) + 0 /\ p \notin Pending(x)'
      BY <2>4, <3>1 DEF Bit
    <3> QED BY <1>6, <1>9, <3>1, <3>2, <3>3
  <2>7. ASSUME NEW x \in Inum
        PROVE  /\ ref'[x] - Own(p, x)' >= ref[x] - Own(p, x)
               /\ ref'[x] - Own(p, x)' > ref[x] - Own(p, x) => x = i
               /\ ref'[x] # ref[x] => dinode[x].nlink > 0
    BY <2>6, RootLinked DEF Bit
  <2>8. LocksMatch' /\ RefInv'
    BY <1>1, <1>3, <1>6, <1>9, <2>4, <2>5, <2>6, <2>7, LocksAndRefsLost, {} \in SUBSET Inum
  <2> QED BY <1>3, <1>5, <2>4, <2>5, <2>6, <2>7, <2>8, QuietRest
<1> QED BY <1>7, <1>8, <1>9, <1>4

(***************************************************************************)
(* Link counts.                                                            *)
(***************************************************************************)

LEMMA CardBounds ==
  ASSUME NEW S, IsFiniteSet(S), NEW T, NEW e
  PROVE  /\ Cardinality(S) \in Nat
         /\ T \subseteq S => /\ IsFiniteSet(T) /\ Cardinality(T) \in Nat
                             /\ Cardinality(T) <= Cardinality(S)
         /\ T \subseteq S \union {e} => /\ IsFiniteSet(T) /\ Cardinality(T) \in Nat
                                        /\ Cardinality(T) <= Cardinality(S) + 1
         /\ T \subseteq S \ {e} /\ e \in S => /\ IsFiniteSet(T) /\ Cardinality(T) \in Nat
                                              /\ Cardinality(T) <= Cardinality(S) - 1
<1>1. Cardinality(S) \in Nat
  BY FS_CardinalityType
<1>2. ASSUME NEW U, IsFiniteSet(U), T \subseteq U
      PROVE  IsFiniteSet(T) /\ Cardinality(T) \in Nat /\ Cardinality(T) <= Cardinality(U)
  BY <1>2, FS_Subset, FS_CardinalityType
<1>3. /\ IsFiniteSet(S \union {e}) /\ Cardinality(S \union {e}) \in Nat
      /\ Cardinality(S \union {e}) <= Cardinality(S) + 1
  BY <1>1, FS_AddElement, FS_CardinalityType
<1>4. e \in S => /\ IsFiniteSet(S \ {e}) /\ Cardinality(S \ {e}) \in Nat
                 /\ Cardinality(S \ {e}) = Cardinality(S) - 1
  BY <1>1, FS_RemoveElement, FS_CardinalityType
<1>5. T \subseteq S => IsFiniteSet(T) /\ Cardinality(T) \in Nat /\ Cardinality(T) <= Cardinality(S)
  BY <1>2
<1>6. T \subseteq S \union {e} => /\ IsFiniteSet(T) /\ Cardinality(T) \in Nat
                                  /\ Cardinality(T) <= Cardinality(S) + 1
  <2> SUFFICES ASSUME T \subseteq S \union {e}
               PROVE  /\ IsFiniteSet(T) /\ Cardinality(T) \in Nat
                      /\ Cardinality(T) <= Cardinality(S) + 1
    OBVIOUS
  <2>1. /\ IsFiniteSet(T) /\ Cardinality(T) \in Nat
        /\ Cardinality(T) <= Cardinality(S \union {e})
    BY <1>2, <1>3
  <2> QED BY <1>1, <1>3, <2>1
<1>7. T \subseteq S \ {e} /\ e \in S => /\ IsFiniteSet(T) /\ Cardinality(T) \in Nat
                                        /\ Cardinality(T) <= Cardinality(S) - 1
  <2> SUFFICES ASSUME T \subseteq S \ {e}, e \in S
               PROVE  /\ IsFiniteSet(T) /\ Cardinality(T) \in Nat
                      /\ Cardinality(T) <= Cardinality(S) - 1
    OBVIOUS
  <2>1. IsFiniteSet(T) /\ Cardinality(T) \in Nat /\ Cardinality(T) <= Cardinality(S \ {e})
    BY <1>2, <1>4
  <2> QED BY <1>1, <1>4, <2>1
<1> QED BY <1>1, <1>5, <1>6, <1>7

LEMMA DueFiniteNext ==
  \A x \in Inum : /\ IsFiniteSet(Names(x)') /\ Cardinality(Names(x)') \in Nat
                  /\ IsFiniteSet(Subs(x)') /\ Cardinality(Subs(x)') \in Nat
                  /\ IsFiniteSet(Pending(x)') /\ Cardinality(Pending(x)') \in Nat
                  /\ Due(x)' = Cardinality(Names(x)') + Cardinality(Subs(x)')
                               + Cardinality(Pending(x)') + Base(x)
<1>1. \A x \in Inum : /\ IsFiniteSet(Names(x)) /\ Cardinality(Names(x)) \in Nat
                      /\ IsFiniteSet(Subs(x)) /\ Cardinality(Subs(x)) \in Nat
                      /\ IsFiniteSet(Pending(x)) /\ Cardinality(Pending(x)) \in Nat
                      /\ Due(x) = Cardinality(Names(x)) + Cardinality(Subs(x))
                                  + Cardinality(Pending(x)) + Base(x)
  BY DueFinite DEF Due
<1>2. (\A x \in Inum : /\ IsFiniteSet(Names(x)) /\ Cardinality(Names(x)) \in Nat
                       /\ IsFiniteSet(Subs(x)) /\ Cardinality(Subs(x)) \in Nat
                       /\ IsFiniteSet(Pending(x)) /\ Cardinality(Pending(x)) \in Nat
                       /\ Due(x) = Cardinality(Names(x)) + Cardinality(Subs(x))
                                   + Cardinality(Pending(x)) + Base(x))'
  BY <1>1, PTL
<1> QED BY <1>2 DEF Base

\* What an inode is due cannot have grown where nothing was added.
LEMMA DueLess ==
  ASSUME NEW x \in Inum, Names(x)' \subseteq Names(x), Subs(x)' \subseteq Subs(x),
         Pending(x)' \subseteq Pending(x)
  PROVE  Due(x) \in Nat /\ Due(x)' \in Nat /\ Due(x)' <= Due(x)
<1>1. /\ Cardinality(Names(x)') <= Cardinality(Names(x))
      /\ Cardinality(Subs(x)') <= Cardinality(Subs(x))
      /\ Cardinality(Pending(x)') <= Cardinality(Pending(x))
  BY DueFinite, CardBounds
<1> QED BY <1>1, DueFinite, DueFiniteNext DEF Due, Base

\* Other calls have not locked what p has locked, or what nobody has.
LEMMA NotOthers ==
  ASSUME IInv, NEW p \in Proc, NEW i \in Inum, holder[i] \in {p, NoProc}
  PROVE  \A q \in Proc \ {p} : i \notin Locked(q)
BY Fields

LEMMA PutFreeKept ==
  ASSUME IInv, NEW p \in Proc, \A x \in Inum : ref'[x] # ref[x] => dinode[x].nlink > 0
  PROVE  \A q \in Proc \ {p} : pc[q] = "put_free" => ref'[loc[q].put] = ref[loc[q].put]
<1> SUFFICES ASSUME NEW q \in Proc \ {p}, pc[q] = "put_free"
             PROVE  ref'[loc[q].put] = ref[loc[q].put]
  OBVIOUS
<1>1. dinode[loc[q].put].nlink = 0
  BY Parts DEF Held, HeldFree
<1>2. loc[q].put \in Inum
  BY Parts, Fields DEF Place, PutPlace, Maybe
<1> QED BY <1>1, <1>2

\* The entries of directories are as they were.
LEMMA SameEntries ==
  ASSUME TypeInv, block' = block,
         \A x \in Inum : dinode'[x].type = dinode[x].type /\ dinode'[x].addr = dinode[x].addr
  PROVE  /\ Dirs' = Dirs
         /\ \A x \in Inum : /\ Names(x)' = Names(x) /\ Subs(x)' = Subs(x)
                            /\ x \in Dirs => Subdirs(x)' = Subdirs(x)
<1>1. Dirs' = Dirs /\ Dirs \subseteq Inum
  BY DEF Dirs, Allocated
<1>2. ASSUME NEW x \in Inum PROVE Names(x)' = Names(x) /\ Subdirs(x)' = Subdirs(x)
  BY <1>1 DEF Names, Subdirs
<1> QED BY <1>1, <1>2 DEF Subs

\* A step that changes the link count of i, and nothing else on the disk.
LEMMA CountStep ==
  ASSUME IInv, TypeInv', NEW p \in Proc, Moves(p), NEW i \in Inum, NEW n \in Nat,
         Alive(i), holder[i] \in {p, NoProc},
         dinode' = [dinode EXCEPT ![i] = [@ EXCEPT !.nlink = n]],
         core' = [core EXCEPT ![i] = dinode'[i]], valid' = valid \union {i},
         UNCHANGED <<bitmap, block, panic>>,
         Place(p)', Held(p)', Locked(p)' \subseteq valid', Fresh(p)' \in {0, Fresh(p)},
         \A x \in Inum : holder'[x] = IF x \in Locked(p)' THEN p
                                      ELSE IF x \in Locked(p) THEN NoProc ELSE holder[x],
         \A x \in Inum : x \in Locked(p)' \ Locked(p) => holder[x] = NoProc,
         \A x \in Inum : ref'[x] - Own(p, x)' = ref[x] - Own(p, x),
         \A x \in Inum : ref'[x] # ref[x] => dinode[x].nlink > 0,
         \A x \in Inum \ {i} : p \in Pending(x)' => p \in Pending(x),
         \/ n = dinode[i].nlink + 1
         \/ n = dinode[i].nlink - 1 /\ p \in Pending(i) /\ p \notin Pending(i)'
  PROVE  IInv'
<1>1. /\ TypeInv /\ CallInv /\ DiskInv /\ DirInv /\ LinkInv /\ NoPanic
      /\ dinode \in [Inum -> Inode] /\ LocksMatch /\ RefInv /\ CacheInv
  BY Parts DEF IInv, TypeInv
<1>2. /\ \A x \in Inum : /\ dinode'[x].type = dinode[x].type /\ dinode'[x].addr = dinode[x].addr
                         /\ dinode'[x].size = dinode[x].size
                         /\ x # i => dinode'[x] = dinode[x]
      /\ dinode'[i].nlink = n
  BY <1>1 DEF Inode
<1>3. LocksMatch' /\ RefInv'
  BY <1>1, <1>2, LocksAndRefs
<1>4. PlaceInv' /\ HeldInv' /\ FreshInv' /\ LoadedInv'
  <2>1. \A q \in Proc \ {p} : Fresh(q) # 0 => Fresh(q) \in Inum /\ dinode[Fresh(q)].addr = 0
    BY Parts, Fields DEF Held, HeldMade, Fresh, Place, Maybe
  <2>2. \A q \in Proc \ {p} : \A x \in Locked(q) :
            dinode'[x] = dinode[x] /\ block'[dinode[x].addr] = block[dinode[x].addr]
    BY <1>2, NotOthers DEF Locked
  <2>3. \A q \in Proc \ {p} : pc[q] = "put_free" => ref'[loc[q].put] = ref[loc[q].put]
    BY PutFreeKept
  <2> QED BY <1>1, <1>2, <2>1, <2>2, <2>3, CallsKept
<1>5. CacheInv'
  BY <1>1, <1>2 DEF CacheInv, TypeInv
<1>6. /\ Dirs' = Dirs /\ \A x \in Inum : Names(x)' = Names(x) /\ Subs(x)' = Subs(x)
  BY <1>1, <1>2, SameEntries
<1>7. DiskInv'
  BY <1>1, <1>2, Numbers DEF DiskInv, Alive, Target
<1>8. DirInv'
  BY <1>1, <1>2, <1>6, Numbers DEF DirInv, Dirs, Allocated
<1>9. LinkInv'
  <2> SUFFICES ASSUME NEW x \in Inum PROVE Due(x)' <= dinode'[x].nlink
    BY DEF LinkInv
  <2>1. Due(x) <= dinode[x].nlink /\ dinode[x].nlink \in Nat
    BY <1>1 DEF LinkInv, Inode
  <2>2. Pending(x)' \subseteq Pending(x) \union {p}
    BY DEF Pending, Moves, At
  <2>3. CASE x # i
    <3>1. Pending(x)' \subseteq Pending(x)
      BY <2>2, <2>3
    <3> QED BY <1>2, <1>6, <2>1, <2>3, <3>1, DueLess
  <2>4. CASE x = i /\ n = dinode[i].nlink + 1
    <3>1. Cardinality(Pending(x)') <= Cardinality(Pending(x)) + 1
      BY <2>2, DueFinite, CardBounds
    <3> QED BY <1>2, <1>6, <2>1, <2>4, <3>1, DueFinite, DueFiniteNext DEF Due, Base
  <2>5. CASE x = i /\ n = dinode[i].nlink - 1 /\ p \in Pending(x) /\ p \notin Pending(x)'
    <3>1. Cardinality(Pending(x)') <= Cardinality(Pending(x)) - 1
      BY <2>2, <2>5, DueFinite, CardBounds
    <3> QED BY <1>2, <1>6, <2>1, <2>5, <3>1, DueFinite, DueFiniteNext DEF Due, Base
  <2> QED BY <2>3, <2>4, <2>5
<1>10. NoPanic'
  BY <1>1 DEF NoPanic
<1> QED BY <1>3, <1>4, <1>5, <1>7, <1>8, <1>9, <1>10 DEF IInv, CallInv

LEMMA UnlinkDropStep ==
  ASSUME IInv, NEW p \in Proc, UnlinkDrop(p)
  PROVE  IInv'
<1>1. /\ pc[p] = "unlink_drop" /\ At(p) = "unlink_drop" /\ Place(p) /\ TypeInv /\ CacheInv
      /\ LinkInv
  BY Parts DEF UnlinkDrop, Runs, At
<1>2. PICK i \in Inum : i = loc[p].ip
  BY <1>1, Fields DEF Place
<1>3. /\ i # 0 /\ Alive(i) /\ loc[p].dp = 0 /\ loc[p].old = 0 /\ loc[p].put = 0
      /\ Locked(p) = {i} /\ holder[i] = p /\ i \in valid
  BY <1>1, <1>2, Fields DEF Place, PutPlace, Locked
<1>4. core[i] = dinode[i] /\ dinode[i] \in Inode
  BY <1>1, <1>3 DEF CacheInv, TypeInv
<1> DEFINE n == dinode[i].nlink - 1
<1>5. n \in Nat
  <2>1. p \in Pending(i)
    BY <1>1, <1>2 DEF Pending
  <2>2. Cardinality(Pending(i)) > 0
    BY <2>1, DueFinite, FS_EmptySet
  <2>3. Due(i) <= dinode[i].nlink /\ dinode[i].nlink \in Nat
    BY <1>1, <1>4 DEF LinkInv, Inode
  <2> QED BY <2>2, <2>3, DueFinite DEF Due, Base
<1>6. /\ holder' = [holder EXCEPT ![i] = NoProc] /\ Put(p, Idle, i, "user")
      /\ UNCHANGED <<bitmap, block, ref, ofile, panic>>
      /\ dinode' = [dinode EXCEPT ![i] = [@ EXCEPT !.nlink = n]]
      /\ core' = [core EXCEPT ![i] = dinode'[i]] /\ valid' = valid \union {i}
  BY <1>1, <1>2, <1>4 DEF UnlinkDrop, Update, TypeInv
<1>7. Ends(p, i)
  BY <1>1, <1>6, GiveBack
<1>8. Held(p)' /\ Moves(p)
  <2>1. \A x \in Inum : Alive(x) => dinode'[x].type # "free"
    BY <1>1, <1>6 DEF TypeInv, Inode, Alive
  <2> QED BY <1>3, <1>6, <1>7, <2>1, Fields DEF Ends, Moves
<1>9. TypeInv'
  <2>1. [dinode[i] EXCEPT !.nlink = n] \in Inode
    BY <1>4, <1>5 DEF Inode
  <2>2. dinode' \in [Inum -> Inode]
    BY <1>1, <1>6, <2>1 DEF TypeInv
  <2>3. core' \in [Inum -> Inode]
    BY <1>1, <1>6, <2>2 DEF TypeInv
  <2> QED BY <1>1, <1>6, <1>7, <2>2, <2>3 DEF TypeInv, Ends
<1>10. ASSUME NEW x \in Inum
       PROVE  /\ Own(p, x)' = Own(p, x) /\ p \notin Pending(x)'
              /\ holder'[x] = IF x \in Locked(p) THEN NoProc ELSE holder[x]
  BY <1>1, <1>2, <1>3, <1>6, <1>7, Numbers DEF Ends, Own, Bit, TypeInv
<1>11. p \in Pending(i)
  BY <1>1, <1>2 DEF Pending
<1>12. /\ Place(p)' /\ Locked(p)' = {} /\ Fresh(p)' = 0
       /\ \A x \in Inum : ref'[x] - Own(p, x)' = ref[x] - Own(p, x)
       /\ \A x \in Inum : ref'[x] = ref[x]
  BY <1>6, <1>7, <1>10 DEF Ends
<1>13. \A x \in Inum : holder'[x] = IF x \in Locked(p)' THEN p
                                    ELSE IF x \in Locked(p) THEN NoProc ELSE holder[x]
  BY <1>10, <1>12
<1> HIDE DEF n
<1>14. \/ n = dinode[i].nlink + 1
       \/ n = dinode[i].nlink - 1 /\ p \in Pending(i) /\ p \notin Pending(i)'
  BY <1>10, <1>11 DEF n
<1> QED BY <1>3, <1>5, <1>6, <1>8, <1>9, <1>10, <1>12, <1>13, <1>14, CountStep

LEMMA LinkBadStep ==
  ASSUME IInv, NEW p \in Proc, LinkBad(p)
  PROVE  IInv'
<1>1. /\ pc[p] = "link_bad" /\ At(p) = "link_bad" /\ Place(p) /\ TypeInv /\ CacheInv
      /\ LinkInv
  BY Parts DEF LinkBad, Runs, At
<1>2. PICK i \in Inum : i = loc[p].old
  BY <1>1, Fields DEF Place
<1>3. /\ i # 0 /\ Alive(i) /\ Typed(i) /\ loc[p].ip = 0 /\ loc[p].dp = 0 /\ loc[p].put = 0
      /\ Locked(p) = {}
  BY <1>1, <1>2, Fields DEF Place, PutPlace, Locked
<1>4. Loaded(i) = dinode[i] /\ dinode[i] \in Inode
  BY <1>1, Parts DEF TypeInv
<1>5. p \in Pending(i)
  BY <1>1, <1>2 DEF Pending
<1> DEFINE n == dinode[i].nlink - 1
<1>6. n \in Nat
  <2>1. Cardinality(Pending(i)) > 0
    BY <1>5, DueFinite, FS_EmptySet
  <2>2. Due(i) <= dinode[i].nlink /\ dinode[i].nlink \in Nat
    BY <1>1, <1>4 DEF LinkInv, Inode
  <2> QED BY <2>1, <2>2, DueFinite DEF Due, Base
<1>7. /\ holder[i] = NoProc /\ Put(p, Idle, i, "user")
      /\ UNCHANGED <<bitmap, block, ref, holder, ofile, panic>>
      /\ dinode' = [dinode EXCEPT ![i] = [@ EXCEPT !.nlink = n]]
      /\ core' = [core EXCEPT ![i] = dinode'[i]] /\ valid' = valid \union {i}
  BY <1>1, <1>2, <1>3, <1>4 DEF LinkBad, Ilock, Free, Update, TypeInv
<1>8. Ends(p, i)
  BY <1>1, <1>7, GiveBack
<1>9. Held(p)' /\ Moves(p)
  <2>1. \A x \in Inum : Alive(x) => dinode'[x].type # "free"
    BY <1>1, <1>7 DEF TypeInv, Inode, Alive
  <2> QED BY <1>3, <1>7, <1>8, <2>1, Fields DEF Ends, Moves
<1>10. TypeInv'
  <2>1. [dinode[i] EXCEPT !.nlink = n] \in Inode
    BY <1>4, <1>6 DEF Inode
  <2>2. dinode' \in [Inum -> Inode]
    BY <1>1, <1>7, <2>1 DEF TypeInv
  <2>3. core' \in [Inum -> Inode]
    BY <1>1, <1>7, <2>2 DEF TypeInv
  <2> QED BY <1>1, <1>7, <1>8, <2>2, <2>3 DEF TypeInv, Ends
<1>11. ASSUME NEW x \in Inum PROVE Own(p, x)' = Own(p, x) /\ p \notin Pending(x)'
  BY <1>1, <1>2, <1>3, <1>7, <1>8, Numbers DEF Ends, Own, Bit
<1> QED BY <1>3, <1>5, <1>6, <1>7, <1>8, <1>9, <1>10, <1>11, CountStep DEF Ends

LEMMA LinkStep ==
  ASSUME IInv, NEW p \in Proc, Link(p)
  PROVE  IInv'
<1>1. /\ pc[p] = "link" /\ At(p) = "link" /\ Place(p) /\ TypeInv /\ CacheInv
  BY Parts DEF Link, Runs, At
<1>2. PICK i \in Inum : i = loc[p].ip
  BY <1>1, Fields DEF Place
<1> DEFINE l == loc[p]
<1>3. /\ i # 0 /\ Alive(i) /\ Typed(i) /\ l.dp = 0 /\ l.old = 0 /\ l.put = 0
      /\ Locked(p) = {} /\ l.op = "link" /\ l.arg \in Path /\ l \in Local
  BY <1>1, <1>2, Fields DEF Place, PutPlace, Locked
<1>4. Loaded(i) = dinode[i] /\ dinode[i] \in Inode
  BY <1>1, Parts DEF TypeInv
<1>5. holder[i] = NoProc /\ UNCHANGED <<bitmap, block, holder, ofile, panic>>
  BY <1>2, <1>3 DEF Link, Ilock, Free, disk
<1>6. CASE dinode[i].type = "dir"
  <2>1. Load({i}) /\ Put(p, Idle, i, "user") /\ UNCHANGED <<disk, dinode, ref>>
    BY <1>2, <1>3, <1>4, <1>6 DEF Link, Ilock, disk
  <2>2. /\ ofile' \in [Proc -> Maybe] /\ Moves(p) /\ Held(p)'
        /\ \E j \in Maybe : Ends(p, j)
        /\ \A x \in Inum : Own(p, x)' = Bit(ofile[p] = x) + Bit(i = x)
    BY <1>3, <1>5, <2>1, GivenEnds
  <2>3. /\ core' \in [Inum -> Inode] /\ valid' \subseteq Inum /\ CacheInv'
        /\ valid' = valid \union {i}
    BY <1>1, <2>1, LoadKeeps
  <2>4. TypeInv'
    BY <1>1, <1>5, <2>1, <2>2, <2>3 DEF TypeInv, Ends
  <2>5. \A x \in Inum : Own(p, x)' = Own(p, x)
    BY <1>2, <1>3, <2>2, Numbers DEF Own, Bit
  <2> QED BY <1>3, <1>5, <2>1, <2>2, <2>3, <2>4, <2>5, QuietStep DEF Ends
<1>7. CASE dinode[i].type # "dir"
  <2> DEFINE n == dinode[i].nlink + 1
             m == [l EXCEPT !.op = "link2", !.path = l.arg, !.old = i]
  <2>1. /\ Walk(p, m) /\ n \in Nat
        /\ dinode' = [dinode EXCEPT ![i] = [@ EXCEPT !.nlink = n]]
        /\ core' = [core EXCEPT ![i] = dinode'[i]] /\ valid' = valid \union {i}
    <3>1. Walk(p, m) /\ Update([x \in {i} |-> [dinode[i] EXCEPT !.nlink = n]])
      BY <1>2, <1>3, <1>4, <1>7 DEF Link, Ilock
    <3>2. n \in Nat
      BY <1>4 DEF Inode
    <3> HIDE DEF m, n
    <3>3. /\ dinode' = [dinode EXCEPT ![i] = [@ EXCEPT !.nlink = n]]
          /\ core' = [core EXCEPT ![i] = dinode'[i]] /\ valid' = valid \union {i}
      BY <1>1, <3>1 DEF Update, TypeInv
    <3> QED BY <3>1, <3>2, <3>3
  <2>2. m \in Local /\ m.op = "link2" /\ m.dp = 0 /\ m.put = 0 /\ m.old = i
    BY <1>3, PathAssumption DEF Local, Walker, Maybe
  <2> HIDE DEF m
  <2>3. /\ ref' = [ref EXCEPT ![RootInum] = @ + 1] /\ ref' \in [Inum -> Nat]
        /\ pc' \in [Proc -> Label] /\ loc' \in [Proc -> Local]
        /\ \A q \in Proc \ {p} : pc'[q] = pc[q] /\ loc'[q] = loc[q]
        /\ Place(p)' /\ Locked(p)' = {} /\ Fresh(p)' = 0
        /\ \A x \in Inum : /\ Own(p, x)' = Bit(ofile'[p] = x) + Bit(RootInum = x) + Bit(i = x)
                           /\ p \in Pending(x)' <=> i = x
        /\ (/\ ofile'[p] # 0 => dinode'[ofile'[p]].type # "free"
            /\ dinode'[RootInum].type = "dir"
            /\ dinode'[i].type \in {"file", "sym"}) => Held(p)'
    BY <1>1, <1>3, <2>1, <2>2, WalkEffects DEF Walker
  <2>4. \A x \in Inum : dinode'[x].type = dinode[x].type
    BY <1>1, <2>1 DEF TypeInv, Inode
  <2>5. Held(p)' /\ Moves(p)
    <3>1. ofile[p] # 0 => ofile[p] \in Inum /\ dinode'[ofile[p]].type # "free"
      BY <2>4, Fields DEF Alive
    <3>2. dinode[i].type \in {"file", "sym"}
      BY <1>3, <1>4, <1>7 DEF Inode, Alive
    <3> QED BY <1>5, <2>3, <2>4, <3>1, <3>2, RootLinked, Numbers DEF Moves
  <2>6. TypeInv'
    <3>1. [dinode[i] EXCEPT !.nlink = n] \in Inode
      BY <1>4, <2>1 DEF Inode
    <3>2. dinode' \in [Inum -> Inode]
      BY <1>1, <2>1, <3>1 DEF TypeInv
    <3>3. core' \in [Inum -> Inode]
      BY <1>1, <2>1, <3>2 DEF TypeInv
    <3> QED BY <1>1, <1>5, <2>1, <2>3, <3>2, <3>3 DEF TypeInv
  <2>7. ASSUME NEW x \in Inum
        PROVE  /\ ref'[x] - Own(p, x)' = ref[x] - Own(p, x)
               /\ ref'[x] # ref[x] => dinode[x].nlink > 0
    <3>1. ref'[x] = ref[x] + Bit(RootInum = x) /\ ref[x] \in Nat
      BY <1>1, <2>3 DEF Bit, TypeInv
    <3>2. Own(p, x)' = Bit(ofile[p] = x) + Bit(RootInum = x) + Bit(i = x)
      BY <1>5, <2>3
    <3>3. Own(p, x) = Bit(ofile[p] = x) + Bit(i = x)
      BY <1>2, <1>3, Numbers DEF Own, Bit
    <3> QED BY <3>1, <3>2, <3>3, RootLinked DEF Bit
  <2>8. Locked(p)' = {} /\ Fresh(p)' = 0 /\ \A x \in Inum \ {i} : p \notin Pending(x)'
    BY <2>3
  <2> QED BY <1>3, <1>5, <2>1, <2>3, <2>5, <2>6, <2>7, <2>8, CountStep
<1> QED BY <1>6, <1>7

(***************************************************************************)
(* Blocks.                                                                 *)
(***************************************************************************)

LEMMA PanicStep ==
  ASSUME IInv, NEW m \in {"ialloc: no inodes", "balloc: out of blocks"}, Panic(m)
  PROVE  IInv'
<1>1. /\ UNCHANGED <<dinode, bitmap, block, core, valid, ref, holder, ofile, pc, loc>>
      /\ panic' = m
  BY DEF Panic, disk, cache
<1>2. TypeInv' /\ DiskInv' /\ NoPanic'
  <2>1. TypeInv'
    BY <1>1, Parts DEF TypeInv
  <2>2. DiskInv'
    <3>1. DiskInv
      BY Parts
    <3>2. dinode' = dinode /\ bitmap' = bitmap /\ block' = block
      BY <1>1
    <3>3. \A i : /\ Alive(i)' <=> Alive(i)
                 /\ Target(i)' = Target(i)
      BY <3>2 DEF Alive, Target
    <3>4. {dinode'[i].addr : i \in Inum} = {dinode[i].addr : i \in Inum}
      BY <3>2
    <3> QED BY <3>1, <3>2, <3>3, <3>4 DEF DiskInv
  <2>3. NoPanic'
    BY <1>1 DEF NoPanic
  <2> QED BY <2>1, <2>2, <2>3
<1>3. \A p \in Proc : At(p)' = At(p) /\ Fresh(p)' = Fresh(p) /\ Locked(p)' = Locked(p)
  BY <1>1 DEF At, Fresh, Locked
<1>4. PlaceInv' /\ HeldInv' /\ FreshInv' /\ CacheInv' /\ LoadedInv'
  <2>1. \A p \in Proc : Place(p)' /\ Held(p)'
    <3> SUFFICES ASSUME NEW p \in Proc PROVE Place(p)' /\ Held(p)'
      OBVIOUS
    <3>1. Place(p) /\ Held(p)
      BY Parts
    <3>2. Place(p)'
      BY <1>1, <1>3, <3>1 DEF Place
    <3>3. HeldRefs(p)' /\ HeldMade(p)'
      BY <1>1, <1>3, <3>1 DEF Held, HeldRefs, HeldMade, Alive
    <3>4. HeldFree(p)' /\ HeldName(p)'
      BY <1>1, <1>3, <3>1 DEF Held, HeldFree, HeldName
    <3> QED BY <3>2, <3>3, <3>4 DEF Held
  <2> QED BY <1>1, <1>3, <2>1, Parts DEF PlaceInv, HeldInv, FreshInv, CacheInv, LoadedInv
<1>5. \A x : Holds(x)' = Holds(x)
  BY <1>1 DEF Holds, Refers
<1>6. Dirs' = Dirs /\ \A x : Names(x)' = Names(x) /\ Subdirs(x)' = Subdirs(x)
  BY <1>1 DEF Dirs, Allocated, Names, Subdirs
<1>7. LocksMatch' /\ RefInv'
  <2>1. \A p \in Proc, x \in Inum : Lost(x, p)' <=> Lost(x, p)
    BY <1>1, <1>3, <1>5, <1>6 DEF Lost
  <2>2. LocksMatch'
    <3>1. LocksMatch
      BY Parts
    <3> QED BY <1>1, <1>3, <2>1, <3>1 DEF LocksMatch
  <2>3. \A x : Slack(x)' = Slack(x)
    BY <1>1, <1>5 DEF Slack
  <2>4. RefInv'
    BY <1>1, <2>1, <2>3, Parts DEF RefInv
  <2> QED BY <2>2, <2>4
<1>8. DirInv'
  BY <1>1, <1>6, Parts DEF DirInv
<1>9. LinkInv'
  <2>1. \A x : Pending(x)' = Pending(x) /\ Subs(x)' = Subs(x)
    BY <1>1, <1>3, <1>6 DEF Pending, Subs
  <2> QED BY <1>1, <1>6, <2>1, Parts DEF LinkInv, Due, Base
<1> QED BY <1>2, <1>4, <1>7, <1>8, <1>9 DEF IInv, CallInv

\* The entries of directories are as they were, though blocks are not.
LEMMA SameSlots ==
  ASSUME TypeInv, \A x \in Inum : dinode'[x].type = dinode[x].type,
         \A d \in Dirs : block'[dinode'[d].addr].slot = block[dinode[d].addr].slot
  PROVE  /\ Dirs' = Dirs
         /\ \A x \in Inum : Names(x)' = Names(x) /\ Subs(x)' = Subs(x)
<1>1. Dirs' = Dirs /\ Dirs \subseteq Inum
  BY DEF Dirs, Allocated
<1>2. ASSUME NEW x \in Inum PROVE Names(x)' = Names(x) /\ (x \in Dirs => Subdirs(x)' = Subdirs(x))
  BY <1>1 DEF Names, Subdirs
<1> QED BY <1>1, <1>2 DEF Subs

\* balloc() finds a block that no inode has.
LEMMA BlockFree ==
  ASSUME IInv, ~NoBlock
  PROVE  /\ Balloc \in Block /\ Balloc # 0 /\ Balloc \notin bitmap
         /\ \A i \in Inum : dinode[i].addr # Balloc
<1>1. Block \ bitmap # {} /\ Block \ bitmap \subseteq Nat
  BY Parts, Numbers DEF NoBlock, TypeInv
<1>2. Balloc \in Block \ bitmap
  BY <1>1, MinIn DEF Balloc
<1> QED BY <1>2, Parts, Numbers DEF DiskInv

\* Directories have blocks of their own, which are marked.
LEMMA DirBlocks ==
  ASSUME IInv, NEW d \in Inum, dinode[d].type = "dir"
  PROVE  /\ dinode[d].addr \in Block /\ dinode[d].addr \in bitmap /\ d \in Dirs /\ Alive(d)
         /\ block[dinode[d].addr] \in Content
         /\ \A x \in Inum : x # d => dinode[x].addr # dinode[d].addr
<1>1. dinode[d] \in Inode /\ dinode[d].addr # 0
  BY Parts DEF TypeInv, DiskInv
<1>2. dinode[d].addr \in Block
  BY <1>1 DEF Inode
<1> QED BY <1>1, <1>2, Parts DEF DiskInv, TypeInv, Dirs, Allocated, Alive

LEMMA WriteLinkStep ==
  ASSUME IInv, NEW p \in Proc, WriteLink(p)
  PROVE  IInv'
<1>1. /\ pc[p] = "write_link" /\ At(p) = "write_link" /\ Place(p) /\ Held(p) /\ TypeInv
      /\ CacheInv /\ CallInv /\ DiskInv /\ DirInv /\ LinkInv /\ LocksMatch /\ RefInv
  BY Parts DEF WriteLink, Runs, At, IInv
<1>2. PICK i \in Inum : i = ofile[p]
  BY <1>1, Fields DEF Place
<1>3. /\ i # 0 /\ Alive(i) /\ Typed(i) /\ loc[p].ip = 0 /\ loc[p].dp = 0 /\ loc[p].old = 0
      /\ loc[p].put = 0 /\ Locked(p) = {} /\ loc[p].arg \in Path
      /\ Fresh(p) = i /\ dinode[i].type = "sym" /\ dinode[i].addr = 0
  <2>1. /\ i # 0 /\ loc[p].ip = 0 /\ loc[p].dp = 0 /\ loc[p].old = 0
        /\ loc[p].put = 0 /\ loc[p].arg \in Path
    BY <1>1, <1>2, Numbers DEF Place, PutPlace
  <2>2. Locked(p) = {} /\ Fresh(p) = i
    BY <1>1, <1>2 DEF Locked, Fresh
  <2>3. dinode[i].type = "sym" /\ dinode[i].addr = 0
    BY <1>1, <2>1, <2>2 DEF Held, HeldMade
  <2> QED BY <2>1, <2>2, <2>3, Parts DEF Alive, Typed
<1>4. Loaded(i) = dinode[i] /\ dinode[i] \in Inode
  BY <1>1, Parts DEF TypeInv
<1>5. CASE NoBlock
  <2>1. Panic("balloc: out of blocks")
    BY <1>2, <1>3, <1>5 DEF WriteLink, Ilock
  <2> QED BY <2>1, PanicStep
<1>6. CASE ~NoBlock
  <2>1. PICK b \in Block : b = Balloc
    BY <1>6, BlockFree
  <2>2. b # 0 /\ b \notin bitmap /\ \A x \in Inum : dinode[x].addr # b
    BY <1>6, <2>1, BlockFree
  <2> DEFINE new == [dinode[i] EXCEPT !.addr = b, !.size = 1]
             c == [Zeroed EXCEPT !.target = loc[p].arg]
  <2>3. /\ holder[i] = NoProc /\ Return(p)
        /\ Update([x \in {i} |-> new])
        /\ bitmap' = bitmap \union {b} /\ block' = [block EXCEPT ![b] = c]
        /\ UNCHANGED <<ref, holder, ofile, panic>>
    BY <1>2, <1>3, <1>4, <1>6, <2>1 DEF WriteLink, Ilock, Free
  <2>4. /\ new \in Inode /\ new.addr = b /\ new.size = 1 /\ new.type = "sym"
        /\ new.nlink = dinode[i].nlink
    BY <1>3, <1>4 DEF Inode
  <2>5. c \in Content /\ c.target = loc[p].arg /\ loc[p].arg \in Path
    BY <1>3, PathAssumption DEF Content, Zeroed, Hole, Entry, Maybe
  <2> HIDE DEF new, c
  <2>6. /\ dinode' = [dinode EXCEPT ![i] = new] /\ core' = [core EXCEPT ![i] = new]
        /\ valid' = valid \union {i}
    BY <1>1, <2>3 DEF Update, TypeInv
  <2>7. /\ dinode'[i] = new /\ \A x \in Inum : x # i => dinode'[x] = dinode[x]
        /\ \A x \in Inum : /\ dinode'[x].type = dinode[x].type
                           /\ dinode'[x].nlink = dinode[x].nlink
    BY <1>1, <1>3, <2>4, <2>6 DEF TypeInv
  <2>8. \A d \in Inum : dinode[d].type = "dir" =>
            /\ dinode'[d] = dinode[d] /\ d # i
            /\ block'[dinode'[d].addr] = block[dinode[d].addr]
    BY <1>1, <1>3, <2>2, <2>3, <2>7, DirBlocks DEF TypeInv
  <2>9. Ends(p, 0)
    BY <1>1, <2>3, Returns
  <2>10. Held(p)' /\ Moves(p)
    BY <1>3, <2>3, <2>7, <2>9, Fields DEF Ends, Moves, Alive
  <2>11. TypeInv'
    BY <1>1, <2>3, <2>4, <2>5, <2>6, <2>9 DEF TypeInv, Ends
  <2>12. \A x \in Inum : Own(p, x)' = Own(p, x) /\ p \notin Pending(x)'
    BY <1>2, <1>3, <2>3, <2>9, Numbers DEF Ends, Own, Bit
  <2>13. /\ Place(p)' /\ Locked(p)' = {} /\ Fresh(p)' = 0
    BY <2>9 DEF Ends
  <2>14. LocksMatch' /\ RefInv'
    BY <1>1, <1>3, <2>3, <2>7, <2>10, <2>11, <2>12, <2>13, LocksAndRefs
  <2>15. PlaceInv' /\ HeldInv' /\ FreshInv' /\ LoadedInv'
    <3>1. \A q \in Proc \ {p} : Fresh(q) # 0 => /\ Fresh(q) \in Inum /\ Fresh(q) # i
                                                /\ dinode[Fresh(q)].addr = 0
      BY <1>3, Parts, Fields DEF Held, HeldMade, Fresh, Place, Maybe, FreshInv
    <3>2. \A q \in Proc \ {p} : \A x \in Locked(q) : x # i /\ x \in Inum
      BY <2>3, NotOthers DEF Locked
    <3>3. \A q \in Proc \ {p} : Fresh(q) # 0 => dinode'[Fresh(q)].addr = 0
      BY <2>7, <3>1
    <3>4. \A q \in Proc \ {p} : \A x \in Locked(q) :
             /\ dinode'[x] = dinode[x]
             /\ dinode[x].type = "dir" => block'[dinode[x].addr] = block[dinode[x].addr]
      BY <2>7, <2>8, <3>2
    <3>5. \A q \in Proc \ {p} : pc[q] = "put_free" => ref'[loc[q].put] = ref[loc[q].put]
      BY <2>3
    <3>6. \A q \in Proc \ {p}, x \in Inum : x \in valid \ valid' => Own(q, x) = 0
      BY <2>6
    <3> QED BY <1>1, <2>7, <2>10, <2>11, <2>13, <3>3, <3>4, <3>5, <3>6, CallsKept
  <2>16. CacheInv'
    BY <1>1, <2>6 DEF CacheInv, TypeInv
  <2>17. Dirs' = Dirs /\ \A x \in Inum : Names(x)' = Names(x) /\ Subs(x)' = Subs(x)
    <3>1. \A d \in Dirs : block'[dinode'[d].addr].slot = block[dinode[d].addr].slot
      BY <2>8 DEF Dirs, Allocated
    <3> QED BY <1>1, <2>7, <3>1, SameSlots
  <2>18. DiskInv'
    <3>1. \A x \in Inum : dinode'[x].addr = IF x = i THEN b ELSE dinode[x].addr
      BY <2>4, <2>7
    <3>2. \A x \in Inum : dinode'[x].size = IF x = i THEN 1 ELSE dinode[x].size
      BY <2>4, <2>7
    <3>3. \A x \in Inum : ~Alive(x)' => dinode'[x].nlink = 0 /\ dinode'[x].addr = 0
      BY <1>1, <1>3, <2>7 DEF DiskInv, Alive
    <3>4. \A x \in Inum : dinode'[x].size = IF dinode'[x].addr = 0 THEN 0 ELSE 1
      BY <1>1, <2>2, <3>1, <3>2 DEF DiskInv
    <3>5. \A x \in Inum : dinode'[x].type = "dir" =>
            dinode'[x].addr # 0 /\ block'[dinode'[x].addr].self = x
      BY <1>1, <2>7, <2>8 DEF DiskInv
    <3>6. \A x, y \in Inum : dinode'[x].addr = dinode'[y].addr /\ dinode'[x].addr # 0 => x = y
      BY <1>1, <2>2, <3>1 DEF DiskInv
    <3>7. bitmap' = {dinode'[x].addr : x \in Inum} \ {0}
      <4>1. bitmap = {dinode[x].addr : x \in Inum} \ {0}
        BY <1>1 DEF DiskInv
      <4>2. ASSUME NEW a PROVE a \in bitmap' <=> a \in {dinode'[x].addr : x \in Inum} \ {0}
        BY <1>3, <2>2, <2>3, <3>1, <4>1
      <4> QED BY <4>2
    <3>8. \A x \in Inum : dinode'[x].type = "sym" /\ dinode'[x].addr # 0 => Target(x)' \in Path
      <4> SUFFICES ASSUME NEW x \in Inum, dinode'[x].type = "sym", dinode'[x].addr # 0
                   PROVE  block'[dinode'[x].addr].target \in Path
        BY DEF Target
      <4>1. CASE x = i
        BY <1>1, <2>3, <2>5, <3>1, <4>1 DEF TypeInv
      <4>2. CASE x # i
        <5>1. dinode'[x] = dinode[x] /\ dinode[x].addr # b /\ dinode[x].addr \in Block
          BY <1>1, <2>2, <2>7, <4>2 DEF TypeInv, Inode
        <5>2. block'[dinode[x].addr] = block[dinode[x].addr]
          BY <1>1, <2>3, <5>1 DEF TypeInv
        <5> QED BY <1>1, <5>1, <5>2 DEF DiskInv, Target
      <4> QED BY <4>1, <4>2
    <3>9. dinode'[RootInum].type = "dir" /\ block'[dinode'[RootInum].addr].up = RootInum
      BY <1>1, <2>7, <2>8, Numbers DEF DiskInv
    <3> QED BY <3>3, <3>4, <3>5, <3>6, <3>7, <3>8, <3>9 DEF DiskInv
  <2>19. DirInv'
    <3>1. \A d \in Dirs : block'[dinode'[d].addr] = block[dinode[d].addr] /\ d \in Inum
      BY <2>8 DEF Dirs, Allocated
    <3>2. \A d \in Dirs', j, k \in Slot :
            LET slot == block'[dinode'[d].addr].slot
            IN  slot[j].inum # 0 =>
                  /\ slot[j].name \in Name
                  /\ slot[k].inum # 0 /\ slot[j].name = slot[k].name => j = k
      BY <1>1, <2>17, <3>1 DEF DirInv
    <3>3. Names(RootInum)' = {}
      BY <1>1, <2>17, Numbers DEF DirInv
    <3>4. \A x \in Dirs' : \A e \in Names(x)' : /\ Names(x)' = {e}
                                               /\ block'[dinode'[x].addr].up = e[1]
      BY <1>1, <2>17, <3>1 DEF DirInv
    <3> QED BY <3>2, <3>3, <3>4 DEF DirInv
  <2>20. LinkInv'
    <3> SUFFICES ASSUME NEW x \in Inum PROVE Due(x)' <= dinode'[x].nlink
      BY DEF LinkInv
    <3>1. Pending(x)' \subseteq Pending(x)
      BY <2>10, <2>12 DEF Pending, Moves, At
    <3>2. Due(x)' \in Nat /\ Due(x) \in Nat /\ Due(x)' <= Due(x)
      BY <2>17, <3>1, DueLess
    <3>3. Due(x) <= dinode[x].nlink /\ dinode[x].nlink \in Nat
      BY <1>1 DEF LinkInv, TypeInv, Inode
    <3> QED BY <2>7, <3>2, <3>3
  <2>21. NoPanic'
    BY <2>3, Parts DEF NoPanic
  <2> QED BY <2>11, <2>14, <2>15, <2>16, <2>18, <2>19, <2>20, <2>21 DEF IInv, CallInv
<1> QED BY <1>5, <1>6

(***************************************************************************)
(* An inode is freed.                                                      *)
(***************************************************************************)

\* The only reference to an inode is p's.
LEMMA OnlyMine ==
  ASSUME IInv, NEW p \in Proc, NEW x \in Inum, ref[x] = 1, Own(p, x) > 0
  PROVE  Own(p, x) = 1 /\ ~(Slack(x) > 0) /\ \A q \in Proc \ {p} : Own(q, x) = 0
<1>1. /\ ref[x] >= Own(p, x) /\ Slack(x) <= ref[x] - Own(p, x)
      /\ \A q \in Proc \ {p} : Own(q, x) > 0 => ref[x] > Own(p, x)
  BY Parts, Counted
<1>2. Own(p, x) = 1
  <2>1. Own(p, x) \in Nat
    BY Fields
  <2> QED BY <1>1, <2>1
<1>3. \A q \in Proc \ {p} : Own(q, x) = 0
  <2>1. \A q \in Proc \ {p} : Own(q, x) \in Nat
    BY Fields
  <2> QED BY <1>1, <1>2, <2>1
<1>4. Slack(x) \in Int
  BY RefsFinite, Parts DEF Slack, TypeInv
<1> QED BY <1>1, <1>2, <1>3, <1>4

\* Nothing leads to an inode whose link count is 0.
LEMMA Unlinked ==
  ASSUME IInv, NEW x \in Inum, dinode[x].nlink = 0
  PROVE  Names(x) = {} /\ Subs(x) = {} /\ Pending(x) = {} /\ x # RootInum
<1>1. Due(x) <= 0
  BY Parts DEF LinkInv
<1>2. /\ Cardinality(Names(x)) = 0 /\ Cardinality(Subs(x)) = 0 /\ Cardinality(Pending(x)) = 0
      /\ Base(x) = 0
  BY <1>1, DueFinite DEF Due, Base
<1> QED BY <1>2, DueFinite, FS_EmptySet DEF Base

LEMMA IputFreeStep ==
  ASSUME IInv, NEW p \in Proc, IputFree(p)
  PROVE  IInv'
<1>1. /\ pc[p] = "put_free" /\ Place(p) /\ Held(p) /\ TypeInv
      /\ CacheInv /\ CallInv /\ DiskInv /\ DirInv /\ LinkInv /\ LocksMatch /\ RefInv
  BY Parts DEF IputFree, Runs, IInv
<1>2. PICK i \in Inum : i = loc[p].put
  BY <1>1, Fields DEF Place, PutPlace, Maybe
<1>3. /\ i \in Locked(p) /\ holder[i] = p /\ i \in valid /\ core[i] = dinode[i]
      /\ dinode[i] \in Inode /\ Alive(i) /\ dinode[i].nlink = 0 /\ ref[i] = 1 /\ i # 0
  <2>1. i \in Locked(p)
    BY <1>1, <1>2 DEF Locked
  <2>2. holder[i] = p /\ i \in valid
    BY <2>1, Fields
  <2> QED BY <1>1, <1>2, <2>1, <2>2, Numbers DEF CacheInv, TypeInv, Held, HeldRefs, HeldFree
<1>4. /\ bitmap' = bitmap \ {dinode[i].addr}
      /\ dinode' = [dinode EXCEPT ![i] = FreeInode] /\ core' = [core EXCEPT ![i] = FreeInode]
      /\ valid' = valid \ {i} /\ holder' = [holder EXCEPT ![i] = NoProc]
      /\ pc' = [pc EXCEPT ![p] = "put_drop"]
      /\ UNCHANGED <<block, ref, ofile, loc, panic>>
  <2>1. ~(core[i].addr # 0 /\ core[i].addr \notin bitmap)
    BY <1>1, <1>3 DEF DiskInv
  <2> QED BY <1>2, <1>3, <2>1 DEF IputFree, Goto
<1>5. Own(p, i) = 1 /\ ~(Slack(i) > 0) /\ \A q \in Proc \ {p} : Own(q, i) = 0
  <2>1. Own(p, i) > 0
    BY <1>2 DEF Own, Bit
  <2> QED BY <1>3, <2>1, OnlyMine
<1>6. ofile[p] # i /\ loc[p].ip # i /\ loc[p].dp # i /\ loc[p].old # i
  BY <1>2, <1>5 DEF Own, Bit
<1>7. Names(i) = {} /\ Subs(i) = {} /\ Pending(i) = {} /\ i # RootInum
  BY <1>3, Unlinked
<1>8. /\ FreeInode \in Inode /\ FreeInode.type = "free" /\ FreeInode.addr = 0
      /\ FreeInode.size = 0 /\ FreeInode.nlink = 0
  BY DEF FreeInode, Inode
<1>9. /\ dinode'[i] = FreeInode /\ \A x \in Inum : x # i => dinode'[x] = dinode[x]
  BY <1>1, <1>4 DEF TypeInv
<1>10. TypeInv' /\ Moves(p)
  BY <1>1, <1>4, <1>8 DEF TypeInv, Moves, Label, PutPlace
<1>11. pc'[p] = "put_drop" /\ loc'[p] = loc[p] /\ ofile'[p] = ofile[p] /\ At(p)' = At(p)
  BY <1>1, <1>4 DEF TypeInv, At
<1>12. Place(p)' /\ Fresh(p)' = Fresh(p)
  BY <1>1, <1>11 DEF Place, PutPlace, Fresh
<1>13. Held(p)'
  <2>1. /\ ofile[p] # 0 => dinode'[ofile[p]] = dinode[ofile[p]]
        /\ loc[p].ip # 0 => dinode'[loc[p].ip] = dinode[loc[p].ip]
        /\ loc[p].dp # 0 => dinode'[loc[p].dp] = dinode[loc[p].dp]
        /\ loc[p].old # 0 => dinode'[loc[p].old] = dinode[loc[p].old]
    BY <1>6, <1>9, Fields
  <2>2. HeldRefs(p)'
    BY <1>1, <1>11, <2>1 DEF Held, HeldRefs, Alive
  <2>3. HeldMade(p)'
    <3>1. At(p) = "created" => loc[p].ip # 0
      BY <1>1 DEF Place
    <3>2. Fresh(p) \in {0, loc[p].ip}
      BY <1>1 DEF Fresh
    <3> QED BY <1>1, <1>11, <1>12, <2>1, <3>1, <3>2 DEF Held, HeldMade
  <2>4. HeldFree(p)' /\ HeldName(p)'
    <3>1. At(p) = "unlink_ip" => loc[p].dp # 0
      BY <1>1 DEF Place
    <3> QED BY <1>1, <1>4, <1>11, <2>1, <3>1 DEF Held, HeldFree, HeldName
  <2> QED BY <2>2, <2>3, <2>4 DEF Held
<1>14. Locked(p)' = Locked(p) \ {i}
  BY <1>1, <1>2, <1>6, <1>11 DEF Locked
<1>15. ASSUME NEW x \in Inum
       PROVE  /\ Own(p, x)' = Own(p, x) /\ ref'[x] = ref[x]
              /\ holder'[x] = IF x = i THEN NoProc ELSE holder[x]
              /\ x \in Locked(p) => holder[x] = p /\ x \in valid
  BY <1>1, <1>4, Fields DEF Own, TypeInv
<1>16. LocksMatch' /\ RefInv'
  <2>1. \A x \in Inum : Slack(x) > 0 => dinode'[x].type = dinode[x].type
    BY <1>5, <1>9
  <2>2. \A x \in Inum : holder'[x] = IF x \in Locked(p)' THEN p
                                     ELSE IF x \in Locked(p) THEN NoProc ELSE holder[x]
    BY <1>3, <1>14, <1>15
  <2> QED BY <1>1, <1>10, <1>14, <1>15, <2>1, <2>2, LocksAndRefs
<1>17. PlaceInv' /\ HeldInv' /\ FreshInv' /\ LoadedInv'
  <2>1. \A q \in Proc \ {p}, x \in Inum :
             Alive(x) /\ dinode'[x].type # dinode[x].type => Own(q, x) = 0
    BY <1>5, <1>9
  <2>2. \A q \in Proc \ {p} : Fresh(q) # 0 => dinode'[Fresh(q)].addr = 0
    <3>1. \A q \in Proc \ {p} : Fresh(q) # 0 => Fresh(q) \in Inum /\ dinode[Fresh(q)].addr = 0
      BY Parts, Fields DEF Held, HeldMade, Fresh, Place, Maybe
    <3> QED BY <1>8, <1>9, <3>1
  <2>3. \A q \in Proc \ {p} : \A x \in Locked(q) :
             /\ dinode'[x] = dinode[x]
             /\ dinode[x].type = "dir" => block'[dinode[x].addr] = block[dinode[x].addr]
    <3>1. \A q \in Proc \ {p} : \A x \in Locked(q) : x # i /\ x \in Inum
      BY <1>3, NotOthers DEF Locked
    <3> QED BY <1>4, <1>9, <3>1
  <2>4. \A q \in Proc \ {p}, x \in Inum : x \in valid \ valid' => Own(q, x) = 0
    BY <1>4, <1>5
  <2>5. Locked(p)' \subseteq valid'
    BY <1>4, <1>14, <1>15 DEF Locked
  <2> QED BY <1>1, <1>4, <1>10, <1>12, <1>13, <2>1, <2>2, <2>3, <2>4, <2>5, CallsKept
<1>18. CacheInv'
  BY <1>1, <1>4 DEF CacheInv, TypeInv
<1>19. /\ Dirs' = Dirs \ {i} /\ Dirs \subseteq Inum
       /\ \A x \in Inum : Names(x)' \subseteq Names(x) /\ Subs(x)' \subseteq Subs(x)
  <2>1. Dirs' = Dirs \ {i} /\ Dirs \subseteq Inum
    BY <1>8, <1>9 DEF Dirs, Allocated
  <2>2. \A d \in Dirs' : dinode'[d] = dinode[d]
    BY <1>9, <2>1
  <2>3. \A x \in Inum : Names(x)' \subseteq Names(x)
    BY <1>4, <2>1, <2>2 DEF Names
  <2>4. \A x \in Inum : Subs(x)' \subseteq Subs(x)
    BY <1>4, <2>1, <2>2 DEF Subs, Subdirs
  <2> QED BY <2>1, <2>3, <2>4
<1>20. DiskInv'
  <2>1. \A x \in Inum : ~Alive(x)' => dinode'[x].nlink = 0 /\ dinode'[x].addr = 0
    BY <1>1, <1>8, <1>9 DEF DiskInv, Alive
  <2>2. \A x \in Inum : dinode'[x].size = IF dinode'[x].addr = 0 THEN 0 ELSE 1
    BY <1>1, <1>8, <1>9 DEF DiskInv
  <2>3. \A x \in Inum : dinode'[x].type = "dir" =>
          dinode'[x].addr # 0 /\ block'[dinode'[x].addr].self = x
    BY <1>1, <1>4, <1>8, <1>9 DEF DiskInv
  <2>4. \A x, y \in Inum : dinode'[x].addr = dinode'[y].addr /\ dinode'[x].addr # 0 => x = y
    BY <1>1, <1>8, <1>9 DEF DiskInv
  <2>5. bitmap' = {dinode'[x].addr : x \in Inum} \ {0}
    <3>1. bitmap = {dinode[x].addr : x \in Inum} \ {0}
      BY <1>1 DEF DiskInv
    <3>2. \A x \in Inum : x # i /\ dinode[x].addr # 0 => dinode[x].addr # dinode[i].addr
      BY <1>1 DEF DiskInv
    <3>3. ASSUME NEW a PROVE a \in bitmap' <=> a \in {dinode'[x].addr : x \in Inum} \ {0}
      BY <1>4, <1>8, <1>9, <3>1, <3>2
    <3> QED BY <3>3
  <2>6. \A x \in Inum : dinode'[x].type = "sym" /\ dinode'[x].addr # 0 => Target(x)' \in Path
    BY <1>1, <1>4, <1>8, <1>9 DEF DiskInv, Target
  <2>7. dinode'[RootInum].type = "dir" /\ block'[dinode'[RootInum].addr].up = RootInum
    BY <1>1, <1>4, <1>7, <1>9, Numbers DEF DiskInv
  <2> QED BY <2>1, <2>2, <2>3, <2>4, <2>5, <2>6, <2>7 DEF DiskInv
<1>21. DirInv'
  <2>1. \A d \in Dirs' : dinode'[d] = dinode[d] /\ d \in Dirs
    BY <1>9, <1>19
  <2>2. \A d \in Dirs', j, k \in Slot :
          LET slot == block'[dinode'[d].addr].slot
          IN  slot[j].inum # 0 =>
                /\ slot[j].name \in Name
                /\ slot[k].inum # 0 /\ slot[j].name = slot[k].name => j = k
    BY <1>1, <1>4, <2>1 DEF DirInv
  <2>3. Names(RootInum)' = {}
    BY <1>1, <1>19, Numbers DEF DirInv
  <2>4. \A x \in Dirs' : \A e \in Names(x)' : /\ Names(x)' = {e}
                                             /\ block'[dinode'[x].addr].up = e[1]
    <3> SUFFICES ASSUME NEW x \in Dirs', NEW e \in Names(x)'
                 PROVE  Names(x)' = {e} /\ block'[dinode'[x].addr].up = e[1]
      OBVIOUS
    <3>1. Names(x)' \subseteq Names(x) /\ x \in Dirs
      BY <1>19, <2>1
    <3>2. Names(x) = {e} /\ block[dinode[x].addr].up = e[1]
      BY <1>1, <3>1 DEF DirInv
    <3> QED BY <1>4, <2>1, <3>1, <3>2
  <2> QED BY <2>2, <2>3, <2>4 DEF DirInv
<1>22. LinkInv'
  <2> SUFFICES ASSUME NEW x \in Inum PROVE Due(x)' <= dinode'[x].nlink
    BY DEF LinkInv
  <2>1. Pending(x)' \subseteq Pending(x)
    BY <1>10, <1>11 DEF Pending, Moves, At
  <2>2. Due(x)' \in Nat /\ Due(x) \in Nat /\ Due(x)' <= Due(x)
    BY <1>19, <2>1, DueLess
  <2>3. Due(x) <= dinode[x].nlink /\ dinode[x].nlink \in Nat
    BY <1>1 DEF LinkInv, TypeInv, Inode
  <2>4. dinode'[x].nlink = dinode[x].nlink
    BY <1>3, <1>8, <1>9
  <2> QED BY <2>2, <2>3, <2>4
<1>23. NoPanic'
  BY <1>4, Parts DEF NoPanic
<1> QED BY <1>10, <1>16, <1>17, <1>18, <1>20, <1>21, <1>22, <1>23 DEF IInv, CallInv

(***************************************************************************)
(* Entries.                                                                *)
(***************************************************************************)

\* An entry e is written in the slot k of a directory d.
LEMMA EntryStep ==
  ASSUME IInv, NEW d \in Inum, dinode[d].type = "dir", NEW k \in Slot, NEW e \in Entry,
         dinode' \in [Inum -> Inode], bitmap' = bitmap,
         \A x \in Inum : /\ dinode'[x].type = dinode[x].type /\ dinode'[x].addr = dinode[x].addr
                         /\ dinode'[x].size = dinode[x].size
                         /\ ~Alive(x) => dinode'[x].nlink = dinode[x].nlink,
         block' = [block EXCEPT ![dinode[d].addr].slot[k] = e]
  PROVE  /\ DiskInv' /\ Dirs' = Dirs /\ block' \in [Block -> Content]
         /\ \A c \in Dirs, j \in Slot :
               block'[dinode'[c].addr].slot[j] = IF c = d /\ j = k THEN e
                                                 ELSE block[dinode[c].addr].slot[j]
         /\ \A c \in Dirs : block'[dinode'[c].addr].up = block[dinode[c].addr].up
         /\ \A c \in Dirs \ {d} : block'[dinode[c].addr] = block[dinode[c].addr]
<1> DEFINE a == dinode[d].addr
           new == [block[a] EXCEPT !.slot[k] = e]
<1>1. /\ a \in Block /\ d \in Dirs /\ block[a] \in Content
      /\ \A x \in Inum : x # d => dinode[x].addr # a
  BY DirBlocks
<1>2. block \in [Block -> Content] /\ dinode \in [Inum -> Inode] /\ DiskInv
  BY Parts DEF TypeInv
<1>3. /\ new \in Content /\ new.self = block[a].self /\ new.up = block[a].up
      /\ new.target = block[a].target
      /\ \A j \in Slot : new.slot[j] = IF j = k THEN e ELSE block[a].slot[j]
  BY <1>1 DEF Content
<1> HIDE DEF new
<1>4. block' = [block EXCEPT ![a] = new]
  BY DEF new
<1>5. block' \in [Block -> Content] /\ block'[a] = new
      /\ \A b \in Block : b # a => block'[b] = block[b]
  BY <1>1, <1>2, <1>3, <1>4
<1>6. \A b \in Block : /\ block'[b].self = block[b].self /\ block'[b].up = block[b].up
                       /\ block'[b].target = block[b].target
  BY <1>3, <1>5
<1>7. Dirs' = Dirs
  BY DEF Dirs, Allocated
<1>8. \A c \in Dirs : c \in Inum /\ dinode[c].addr \in Block /\ dinode'[c].addr = dinode[c].addr
  BY DirBlocks DEF Dirs, Allocated
<1>9. \A c \in Dirs \ {d} : block'[dinode[c].addr] = block[dinode[c].addr]
  BY <1>1, <1>5, <1>8
<1>10. \A c \in Dirs, j \in Slot :
           block'[dinode'[c].addr].slot[j] = IF c = d /\ j = k THEN e
                                             ELSE block[dinode[c].addr].slot[j]
  <2> SUFFICES ASSUME NEW c \in Dirs, NEW j \in Slot
               PROVE  block'[dinode[c].addr].slot[j] = IF c = d /\ j = k THEN e
                                                       ELSE block[dinode[c].addr].slot[j]
    BY <1>8
  <2>1. CASE c = d
    <3>1. block'[dinode[c].addr] = new
      BY <1>5, <2>1
    <3>2. dinode[c].addr = a
      BY <2>1
    <3> HIDE DEF a
    <3> QED BY <1>3, <2>1, <3>1, <3>2
  <2>2. CASE c # d
    <3>1. block'[dinode[c].addr] = block[dinode[c].addr]
      BY <1>9, <2>2
    <3>2. block'[dinode[c].addr].slot[j] = block[dinode[c].addr].slot[j]
      BY <3>1
    <3> QED BY <2>2, <3>2, Zenon
  <2> QED BY <2>1, <2>2
<1>11. \A c \in Dirs : block'[dinode'[c].addr].up = block[dinode[c].addr].up
  BY <1>6, <1>8
<1>12. DiskInv'
  <2>1. \A x \in Inum : ~Alive(x)' => dinode'[x].nlink = 0 /\ dinode'[x].addr = 0
    BY <1>2 DEF DiskInv, Alive
  <2>2. \A x \in Inum : dinode'[x].size = IF dinode'[x].addr = 0 THEN 0 ELSE 1
    BY <1>2 DEF DiskInv
  <2>3. \A x \in Inum : dinode'[x].type = "dir" =>
          dinode'[x].addr # 0 /\ block'[dinode'[x].addr].self = x
    BY <1>2, <1>6, <1>8 DEF DiskInv, Dirs, Allocated
  <2>4. \A x, y \in Inum : dinode'[x].addr = dinode'[y].addr /\ dinode'[x].addr # 0 => x = y
    BY <1>2 DEF DiskInv
  <2>5. bitmap' = {dinode'[x].addr : x \in Inum} \ {0}
    <3>1. bitmap = {dinode[x].addr : x \in Inum} \ {0}
      BY <1>2 DEF DiskInv
    <3>2. {dinode'[x].addr : x \in Inum} = {dinode[x].addr : x \in Inum}
      OBVIOUS
    <3> QED BY <3>1, <3>2
  <2>6. \A x \in Inum : dinode'[x].type = "sym" /\ dinode'[x].addr # 0 => Target(x)' \in Path
    <3>1. \A x \in Inum : dinode[x].addr # 0 => dinode[x].addr \in Block
      BY <1>2 DEF Inode
    <3> QED BY <1>2, <1>6, <3>1 DEF DiskInv, Target
  <2>7. dinode'[RootInum].type = "dir" /\ block'[dinode'[RootInum].addr].up = RootInum
    BY <1>2, <1>8, <1>11, Numbers DEF DiskInv, Dirs, Allocated
  <2> QED BY <2>1, <2>2, <2>3, <2>4, <2>5, <2>6, <2>7 DEF DiskInv
<1> QED BY <1>5, <1>7, <1>9, <1>10, <1>11, <1>12

\* dirlink() finds a hole for a name that is not there.
LEMMA HoleLeft ==
  ASSUME IInv, NEW d \in Inum, dinode[d].type = "dir", NEW name \in Name,
         \A j \in Slot : LET e == block[dinode[d].addr].slot[j]
                         IN  e.inum = 0 \/ e.name # name
  PROVE  LET k == Min({j \in Slot : block[dinode[d].addr].slot[j].inum = 0})
         IN  k \in Slot /\ block[dinode[d].addr].slot[k].inum = 0
<1> DEFINE slot == block[dinode[d].addr].slot
           H == {j \in Slot : slot[j].inum = 0}
           f == [j \in Slot |-> slot[j].name]
<1>1. H # {}
  <2> SUFFICES ASSUME H = {} PROVE FALSE
    OBVIOUS
  <2>1. d \in Dirs
    BY DirBlocks
  <2>2. /\ \A j \in Slot : slot[j].name \in Name \ {name}
        /\ \A j, k \in Slot : slot[j].name = slot[k].name => j = k
    BY <2>1, Parts DEF DirInv
  <2>3. f \in [Slot -> Name \ {name}]
    BY <2>2
  <2>4. /\ IsFiniteSet(Name \ {name})
        /\ Cardinality(Name \ {name}) < Cardinality(Slot)
    <3>1. Cardinality(Name \ {name}) = Cardinality(Name) - 1 /\ IsFiniteSet(Name \ {name})
      BY ImageAssumption, FS_RemoveElement
    <3> QED BY <3>1, Numbers
  <2>5. \E j, k \in Slot : j # k /\ f[j] = f[k]
    <3> DEFINE T == Name \ {name}
    <3>1. /\ IsFiniteSet(Slot) /\ IsFiniteSet(T) /\ Cardinality(T) < Cardinality(Slot)
          /\ f \in [Slot -> T]
      BY <2>3, <2>4, Numbers
    <3> HIDE DEF f, T
    <3> QED BY <3>1, FS_PigeonHole
  <2> QED BY <2>2, <2>5
<1>2. Min(H) \in H
  BY <1>1, Numbers, MinIn
<1> QED BY <1>2

LEMMA EntriesAfter ==
  ASSUME NEW d \in Dirs, NEW k \in Slot, NEW e \in Entry, Dirs' = Dirs,
         \A c \in Dirs, j \in Slot :
             block'[dinode'[c].addr].slot[j] = IF c = d /\ j = k THEN e
                                               ELSE block[dinode[c].addr].slot[j]
  PROVE  /\ \A x \in Inum : \A f \in Dirs \X Slot :
               f \in Names(x)' <=> IF f = <<d, k>> THEN e.inum = x ELSE f \in Names(x)
         /\ \A x \in Inum : Names(x) \subseteq Dirs \X Slot /\ Names(x)' \subseteq Dirs \X Slot
         /\ \A c, y \in Dirs : y \in Subs(c)' => (y \in Subs(c) \/ (c = d /\ e.inum = y))
<1>1. ASSUME NEW x \in Inum, NEW c \in Dirs, NEW j \in Slot
      PROVE  <<c, j>> \in Names(x)' <=> IF <<c, j>> = <<d, k>> THEN e.inum = x
                                        ELSE <<c, j>> \in Names(x)
  <2>1. <<c, j>> \in Names(x)' <=> block'[dinode'[c].addr].slot[j].inum = x
    BY DEF Names
  <2>2. <<c, j>> \in Names(x) <=> block[dinode[c].addr].slot[j].inum = x
    BY DEF Names
  <2>3. CASE c = d /\ j = k
    <3>1. block'[dinode'[c].addr].slot[j] = e
      BY <2>3
    <3> QED BY <2>1, <2>3, <3>1
  <2>4. CASE ~(c = d /\ j = k)
    <3>1. block'[dinode'[c].addr].slot[j] = block[dinode[c].addr].slot[j]
      BY <2>4
    <3>2. <<c, j>> # <<d, k>>
      BY <2>4
    <3> QED BY <2>1, <2>2, <3>1, <3>2
  <2> QED BY <2>3, <2>4
<1>2. ASSUME NEW x \in Inum, NEW f \in Dirs \X Slot
      PROVE  f \in Names(x)' <=> IF f = <<d, k>> THEN e.inum = x ELSE f \in Names(x)
  <2>1. PICK c \in Dirs, j \in Slot : f = <<c, j>>
    OBVIOUS
  <2> QED BY <1>1, <2>1
<1>3. ASSUME NEW c \in Dirs, NEW y \in Dirs, y \in Subs(c)'
      PROVE  y \in Subs(c) \/ (c = d /\ e.inum = y)
  <2>1. PICK j \in Slot : block'[dinode'[c].addr].slot[j].inum = y
    BY <1>3 DEF Subs, Subdirs
  <2>2. CASE c = d /\ j = k
    <3>1. block'[dinode'[c].addr].slot[j] = e
      BY <2>2
    <3> QED BY <2>1, <2>2, <3>1
  <2>3. CASE ~(c = d /\ j = k)
    <3>1. block'[dinode'[c].addr].slot[j] = block[dinode[c].addr].slot[j]
      BY <2>3
    <3> QED BY <2>1, <3>1 DEF Subs, Subdirs
  <2> QED BY <2>2, <2>3
<1>4. \A x \in Inum : Names(x) \subseteq Dirs \X Slot /\ Names(x)' \subseteq Dirs \X Slot
  BY DEF Names
<1>5. \A x \in Inum : \A f \in Dirs \X Slot :
        f \in Names(x)' <=> IF f = <<d, k>> THEN e.inum = x ELSE f \in Names(x)
  BY <1>2
<1>6. \A c, y \in Dirs : y \in Subs(c)' => (y \in Subs(c) \/ (c = d /\ e.inum = y))
  BY <1>3
<1> QED BY <1>4, <1>5, <1>6

\* The slot that the unlink() of p clears.
Cleared(p) == LET dp == loc[p].dp
              IN  Min({k \in Slot : /\ Slots(dp)[k].inum = loc[p].ip
                                    /\ Slots(dp)[k].name = Head(loc[p].path)})

\* What an unlink() that has both its directory and its inode locked works on.
LEMMA UnlinkFinds ==
  ASSUME IInv, NEW p \in Proc, NEW i, NEW d, NEW at, UnlinkEntry(p),
         i = loc[p].ip, d = loc[p].dp, at = Cleared(p)
  PROVE  /\ pc[p] = "unlink_ip" /\ At(p) = "unlink_ip"
         /\ i \in Inum /\ d \in Inum /\ i # d /\ i # 0 /\ d # 0
         /\ dinode[d].type = "dir" /\ Alive(i) /\ Typed(i) /\ Alive(d)
         /\ holder[i] = NoProc /\ holder[d] = p /\ d \in valid /\ core[d] = dinode[d]
         /\ Loaded(i) = dinode[i] /\ Loaded(d) = dinode[d]
         /\ loc[p].old = 0 /\ loc[p].put = 0 /\ Locked(p) = {d}
         /\ at \in Slot /\ block[dinode[d].addr].slot[at].inum = i
         /\ dinode[i].nlink > 0 /\ <<d, at>> \in Names(i)
<1>1. pc[p] = "unlink_ip" /\ At(p) = "unlink_ip" /\ Place(p) /\ Held(p) /\ TypeInv /\ CacheInv
  BY Parts DEF UnlinkEntry, Runs, At
<1>2. /\ i \in Inum /\ d \in Inum /\ i # 0 /\ d # 0 /\ dinode[d].type = "dir" /\ Alive(i)
      /\ Typed(i) /\ Alive(d) /\ loc[p].old = 0 /\ loc[p].put = 0
  BY <1>1, Fields DEF Place, PutPlace, Alive
<1>3. Locked(p) = {d} /\ holder[d] = p /\ d \in valid
  <2>1. Locked(p) = {d}
    BY <1>1, <1>2 DEF Locked
  <2> QED BY <1>2, <2>1, Fields
<1>4. holder[i] = NoProc /\ i # d
  <2>1. holder[i] = NoProc
    BY DEF UnlinkEntry, Ilock, Free
  <2> QED BY <1>3, <2>1, Fields
<1>5. core[d] = dinode[d] /\ Loaded(i) = dinode[i] /\ Loaded(d) = dinode[d]
  BY <1>1, <1>2, <1>3, Parts DEF CacheInv
<1> DEFINE slot == block[dinode[d].addr].slot
           S == {k \in Slot : Slots(d)[k].inum = i /\ Slots(d)[k].name = Head(loc[p].path)}
<1>6. Slots(d) = slot
  BY <1>5 DEF Slots
<1>7. Min(S) \in S
  <2>1. S # {}
    BY <1>1, <1>6 DEF Held, HeldName
  <2> QED BY <2>1, Numbers, MinIn
<1>8. at = Min(S)
  BY DEF Cleared
<1>9. at \in Slot /\ slot[at].inum = i
  BY <1>6, <1>7, <1>8
<1>10. dinode[i].nlink > 0 /\ <<d, at>> \in Names(i)
  BY <1>2, <1>9, EntryLinked
<1> QED BY <1>1, <1>2, <1>3, <1>4, <1>5, <1>9, <1>10

LEMMA UnlinkEntryStep ==
  ASSUME IInv, NEW p \in Proc, UnlinkEntry(p)
  PROVE  IInv'
<1>1. /\ Place(p) /\ Held(p) /\ TypeInv /\ CacheInv /\ CallInv /\ DiskInv /\ DirInv /\ LinkInv
      /\ LocksMatch /\ RefInv /\ loc[p] \in Local
  BY Parts, Fields DEF IInv
<1> DEFINE l == loc[p]
<1>2. PICK i, d, at : i = l.ip /\ d = l.dp /\ at = Cleared(p)
  OBVIOUS
<1> DEFINE isdir == dinode[i].type = "dir"
           slot == block[dinode[d].addr].slot
<1>3. /\ pc[p] = "unlink_ip" /\ At(p) = "unlink_ip"
      /\ i \in Inum /\ d \in Inum /\ i # d /\ i # 0 /\ d # 0
      /\ dinode[d].type = "dir" /\ Alive(i) /\ Typed(i) /\ Alive(d)
      /\ holder[i] = NoProc /\ holder[d] = p /\ d \in valid /\ core[d] = dinode[d]
      /\ Loaded(i) = dinode[i] /\ Loaded(d) = dinode[d]
      /\ l.old = 0 /\ l.put = 0 /\ Locked(p) = {d}
      /\ at \in Slot /\ slot[at].inum = i /\ dinode[i].nlink > 0 /\ <<d, at>> \in Names(i)
  <2> HIDE DEF l
  <2>1. i = loc[p].ip /\ d = loc[p].dp /\ at = Cleared(p)
    BY <1>2 DEF l
  <2>2. /\ pc[p] = "unlink_ip" /\ At(p) = "unlink_ip"
        /\ i \in Inum /\ d \in Inum /\ i # d /\ i # 0 /\ d # 0
        /\ dinode[d].type = "dir" /\ Alive(i) /\ Typed(i) /\ Alive(d)
        /\ holder[i] = NoProc /\ holder[d] = p /\ d \in valid /\ core[d] = dinode[d]
        /\ Loaded(i) = dinode[i] /\ Loaded(d) = dinode[d]
        /\ loc[p].old = 0 /\ loc[p].put = 0 /\ Locked(p) = {d}
        /\ at \in Slot /\ block[dinode[d].addr].slot[at].inum = i
        /\ dinode[i].nlink > 0 /\ <<d, at>> \in Names(i)
    BY <2>1, UnlinkFinds, SMTT(30)
  <2> QED BY <2>2 DEF l
<1>4. dinode[i] \in Inode /\ dinode[d] \in Inode
  BY <1>1, <1>3 DEF TypeInv
<1> DEFINE keeps == /\ Load({i}) /\ Put(p, [l EXCEPT !.ip = 0], i, "unlink_bad")
                    /\ UNCHANGED <<disk, ref, holder, ofile, panic>>
           n == IF isdir THEN dinode[d].nlink - 1 ELSE dinode[d].nlink
           new == [dinode[d] EXCEPT !.nlink = n]
           clears == /\ Update([x \in {i, d} |-> IF x = i THEN dinode[i] ELSE new])
                     /\ block' = [block EXCEPT ![dinode[d].addr].slot[at] = Hole]
                     /\ holder' = [holder EXCEPT ![d] = NoProc, ![i] = p]
                     /\ Put(p, [l EXCEPT !.dp = 0], d, "unlink_drop")
                     /\ UNCHANGED <<bitmap, ref, ofile, panic>>
<1>5. keeps \/ clears
  <2> DEFINE i0 == l.ip  d0 == l.dp
             at0 == Min({k \in Slot : Slots(d0)[k].inum = i0 /\ Slots(d0)[k].name = Head(l.path)})
             dir0 == Loaded(i0).type = "dir"
  <2>1. ~(Loaded(i0).nlink < 1) /\ Typed(i0)
    <3>1. i0 = i /\ Loaded(i) = dinode[i] /\ Typed(i)
      BY <1>2, <1>3
    <3>2. dinode[i].nlink \in Nat /\ dinode[i].nlink > 0
      BY <1>3, <1>4 DEF Inode
    <3> HIDE DEF i0
    <3> QED BY <3>1, <3>2
  <2>2. \/ Load({i0}) /\ Put(p, [l EXCEPT !.ip = 0], i0, "unlink_bad")
           /\ UNCHANGED <<disk, ref, holder, ofile, panic>>
        \/ /\ Update([x \in {i0, d0} |->
                        IF x = i0 THEN Loaded(i0)
                        ELSE [core[d0] EXCEPT !.nlink = IF dir0 THEN @ - 1 ELSE @]])
           /\ block' = [block EXCEPT ![Loaded(d0).addr].slot[at0] = Hole]
           /\ holder' = [holder EXCEPT ![d0] = NoProc, ![i0] = p]
           /\ Put(p, [l EXCEPT !.dp = 0], d0, "unlink_drop")
           /\ UNCHANGED <<bitmap, ref, ofile, panic>>
    BY <2>1 DEF UnlinkEntry, Ilock, Written
  <2>3. at = at0
    BY <1>2 DEF Cleared
  <2>4. [x \in {i0, d0} |-> IF x = i0 THEN Loaded(i0)
                            ELSE [core[d0] EXCEPT !.nlink = IF dir0 THEN @ - 1 ELSE @]]
          = [x \in {i, d} |-> IF x = i THEN dinode[i] ELSE new]
    BY <1>2, <1>3
  <2>5. i0 = i /\ d0 = d /\ Loaded(d0) = dinode[d]
    BY <1>2, <1>3
  <2> HIDE DEF i0, d0, at0, dir0
  <2> QED BY <2>2, <2>3, <2>4, <2>5
<1>6. CASE keeps
  <2>1. /\ Load({i}) /\ UNCHANGED <<disk, dinode, bitmap, block, ref, holder, ofile, panic>>
        /\ pc' = [pc EXCEPT ![p] = "put"]
        /\ loc' = [loc EXCEPT ![p] = [[l EXCEPT !.ip = 0] EXCEPT !.put = i,
                                                                 !.after = "unlink_bad"]]
    BY <1>6 DEF Put, Goto, disk
  <2>2. /\ pc'[p] = "put" /\ loc'[p].op = l.op /\ loc'[p].arg = l.arg /\ loc'[p].ip = 0
        /\ loc'[p].dp = d /\ loc'[p].old = 0 /\ loc'[p].put = i /\ loc'[p].after = "unlink_bad"
    BY <1>1, <1>2, <1>3, <2>1 DEF TypeInv, Local
  <2>3. At(p)' = "unlink_bad"
    BY <2>2 DEF At
  <2>4. Place(p)' /\ Locked(p)' = {d} /\ Fresh(p)' = 0
    BY <1>1, <1>3, <2>2, <2>3 DEF Place, PutPlace, Locked, Fresh
  <2>5. Held(p)'
    <3>1. HeldRefs(p)'
      BY <1>3, <2>1, <2>2, Fields DEF HeldRefs, Alive
    <3> QED BY <2>2, <2>3, <2>4, <3>1 DEF Held, HeldMade, HeldFree, HeldName
  <2>6. /\ core' \in [Inum -> Inode] /\ valid' \subseteq Inum /\ CacheInv'
        /\ valid' = valid \union {i}
    BY <1>1, <1>3, <2>1, LoadKeeps
  <2>7. TypeInv' /\ Moves(p)
    <3>1. [[l EXCEPT !.ip = 0] EXCEPT !.put = i, !.after = "unlink_bad"] \in Local
      BY <1>1, <1>3 DEF Local, Maybe, Label
    <3> QED BY <1>1, <2>1, <2>6, <3>1 DEF TypeInv, Moves, Label, PutPlace
  <2>8. ASSUME NEW x \in Inum PROVE Own(p, x)' = Own(p, x) /\ p \notin Pending(x)'
    <3>1. Own(p, x)' = Own(p, x)
      <4>1. /\ loc[p].ip = i /\ loc[p].dp = d /\ loc[p].old = 0 /\ loc[p].put = 0
            /\ ofile'[p] = ofile[p]
        BY <1>2, <1>3, <2>1
      <4> HIDE DEF l
      <4> QED BY <2>2, <4>1 DEF Own, Bit
    <3>2. p \notin Pending(x)'
      BY <2>2, <2>3, Numbers DEF Pending
    <3> QED BY <3>1, <3>2
  <2>9. \A x \in Inum : holder'[x] = IF x \in Locked(p)' THEN p
                                     ELSE IF x \in Locked(p) THEN NoProc ELSE holder[x]
    BY <1>3, <2>1, <2>4
  <2> QED BY <1>3, <2>1, <2>4, <2>5, <2>6, <2>7, <2>8, <2>9, QuietStep
<1>7. CASE clears
  <2>1. /\ isdir => Names(i) = {<<d, at>>} /\ i \in Subs(d) /\ Cardinality(Subs(d)) > 0
        /\ n \in Nat
    <3>1. isdir => Names(i) = {<<d, at>>} /\ i \in Dirs
      BY <1>1, <1>3 DEF DirInv, Dirs, Allocated, Alive
    <3>2. isdir => i \in Subs(d)
      BY <1>3, <3>1 DEF Subs, Subdirs, Dirs, Allocated, Alive
    <3>3. isdir => Cardinality(Subs(d)) > 0
      BY <1>3, <3>2, DueFinite, FS_EmptySet
    <3>4. Due(d) <= dinode[d].nlink /\ dinode[d].nlink \in Nat
      BY <1>1, <1>3, <1>4 DEF LinkInv, Inode
    <3>5. isdir => Due(d) > 0
      BY <1>3, <3>3, DueFinite DEF Due, Base
    <3>6. Due(d) \in Nat
      BY <1>3, DueFinite DEF Due, Base
    <3> QED BY <3>1, <3>2, <3>3, <3>4, <3>5, <3>6
  <2>2. /\ new \in Inode /\ new.type = dinode[d].type /\ new.addr = dinode[d].addr
        /\ new.size = dinode[d].size /\ new.nlink = n
    BY <1>4, <2>1 DEF Inode
  <2>3. Update([x \in {i, d} |-> IF x = i THEN dinode[i] ELSE new])
    BY <1>7
  <2> HIDE DEF new, n
  <2>4. /\ dinode' = [dinode EXCEPT ![d] = new]
        /\ core' = [core EXCEPT ![i] = dinode[i], ![d] = new]
        /\ valid' = valid \union {i, d}
    BY <1>1, <1>3, <2>3 DEF Update, TypeInv
  <2>5. /\ dinode'[d] = new /\ \A x \in Inum : x # d => dinode'[x] = dinode[x]
        /\ \A x \in Inum : /\ dinode'[x].type = dinode[x].type
                           /\ dinode'[x].addr = dinode[x].addr
                           /\ dinode'[x].size = dinode[x].size
    BY <1>1, <1>3, <2>2, <2>4 DEF TypeInv
  <2>6. /\ pc' = [pc EXCEPT ![p] = "put"]
        /\ loc' = [loc EXCEPT ![p] = [[l EXCEPT !.dp = 0] EXCEPT !.put = d,
                                                                 !.after = "unlink_drop"]]
        /\ holder' = [holder EXCEPT ![d] = NoProc, ![i] = p]
        /\ block' = [block EXCEPT ![dinode[d].addr].slot[at] = Hole]
        /\ UNCHANGED <<bitmap, ref, ofile, panic>>
    BY <1>7 DEF Put, Goto
  <2> HIDE DEF clears
  <2>7. /\ pc'[p] = "put" /\ loc'[p].op = l.op /\ loc'[p].arg = l.arg /\ loc'[p].ip = i
        /\ loc'[p].dp = 0 /\ loc'[p].old = 0 /\ loc'[p].put = d /\ loc'[p].after = "unlink_drop"
    BY <1>1, <1>2, <1>3, <2>6 DEF TypeInv, Local
  <2>8. At(p)' = "unlink_drop"
    BY <2>7 DEF At
  <2>9. Place(p)' /\ Locked(p)' = {i} /\ Fresh(p)' = 0
    BY <1>1, <1>3, <2>7, <2>8 DEF Place, PutPlace, Locked, Fresh
  <2>10. Held(p)'
    <3>1. HeldRefs(p)'
      BY <1>3, <2>5, <2>6, <2>7, Fields DEF HeldRefs, Alive
    <3> QED BY <2>7, <2>8, <2>9, <3>1 DEF Held, HeldMade, HeldFree, HeldName
  <2>11. Hole \in Entry /\ Hole.inum = 0
    BY DEF Hole, Entry, Maybe
  <2>12. dinode' \in [Inum -> Inode] /\ core' \in [Inum -> Inode] /\ valid' \subseteq Inum
    BY <1>1, <1>3, <1>4, <2>2, <2>4 DEF TypeInv
  <2>13. /\ DiskInv' /\ Dirs' = Dirs /\ block' \in [Block -> Content]
         /\ \A c \in Dirs, j \in Slot :
               block'[dinode'[c].addr].slot[j] = IF c = d /\ j = at THEN Hole
                                                 ELSE block[dinode[c].addr].slot[j]
         /\ \A c \in Dirs : block'[dinode'[c].addr].up = block[dinode[c].addr].up
         /\ \A c \in Dirs \ {d} : block'[dinode[c].addr] = block[dinode[c].addr]
    <3>1. \A x \in Inum : ~Alive(x) => dinode'[x].nlink = dinode[x].nlink
      BY <1>3, <2>5
    <3> QED BY <1>3, <2>5, <2>6, <2>11, <2>12, <3>1, EntryStep
  <2>14. TypeInv' /\ Moves(p)
    <3>1. [[l EXCEPT !.dp = 0] EXCEPT !.put = d, !.after = "unlink_drop"] \in Local
      BY <1>1, <1>3 DEF Local, Maybe, Label
    <3> QED BY <1>1, <1>3, <2>6, <2>12, <2>13, <3>1 DEF TypeInv, Moves, Label, PutPlace
  <2>15. ASSUME NEW x \in Inum
         PROVE  /\ Own(p, x)' = Own(p, x) /\ ref'[x] = ref[x]
                /\ p \in Pending(x)' => x = i
                /\ holder'[x] = IF x = i THEN p ELSE IF x = d THEN NoProc ELSE holder[x]
    <3>1. Own(p, x)' = Own(p, x)
      <4>1. /\ loc[p].ip = i /\ loc[p].dp = d /\ loc[p].old = 0 /\ loc[p].put = 0
            /\ ofile'[p] = ofile[p]
        BY <1>2, <1>3, <2>6
      <4> HIDE DEF l
      <4> QED BY <2>7, <4>1 DEF Own, Bit
    <3>2. p \in Pending(x)' => x = i
      BY <2>7, <2>8, Numbers DEF Pending
    <3>3. holder'[x] = IF x = i THEN p ELSE IF x = d THEN NoProc ELSE holder[x]
      BY <1>1, <1>3, <2>6 DEF TypeInv
    <3> QED BY <2>6, <3>1, <3>2, <3>3
  <2>16. LocksMatch' /\ RefInv'
    BY <1>1, <1>3, <2>5, <2>9, <2>14, <2>15, LocksAndRefs
  <2>17. PlaceInv' /\ HeldInv' /\ FreshInv' /\ LoadedInv'
    <3>1. \A q \in Proc \ {p} : Fresh(q) # 0 => dinode'[Fresh(q)].addr = 0
      <4>1. \A q \in Proc \ {p} : Fresh(q) # 0 => Fresh(q) \in Inum /\ dinode[Fresh(q)].addr = 0
        BY Parts, Fields DEF Held, HeldMade, Fresh, Place, Maybe
      <4> QED BY <2>5, <4>1
    <3>2. \A q \in Proc \ {p} : \A x \in Locked(q) : x # d /\ x \in Inum
      BY <1>3, NotOthers DEF Locked
    <3>3. \A q \in Proc \ {p} : \A x \in Locked(q) :
             /\ dinode'[x] = dinode[x]
             /\ dinode[x].type = "dir" => block'[dinode[x].addr] = block[dinode[x].addr]
      BY <2>5, <2>13, <3>2 DEF Dirs, Allocated
    <3>4. \A q \in Proc \ {p} : pc[q] = "put_free" => ref'[loc[q].put] = ref[loc[q].put]
      BY <2>6
    <3>5. Locked(p)' \subseteq valid'
      BY <2>4, <2>9
    <3>6. \A q \in Proc \ {p}, x \in Inum : x \in valid \ valid' => Own(q, x) = 0
      BY <2>4
    <3> QED BY <1>1, <2>5, <2>9, <2>10, <2>14, <3>1, <3>3, <3>4, <3>5, <3>6, CallsKept
  <2>18. CacheInv'
    BY <1>1, <1>3, <2>4 DEF CacheInv, TypeInv
  <2>19. /\ \A x \in Inum : \A f \in Dirs \X Slot :
              f \in Names(x)' <=> IF f = <<d, at>> THEN Hole.inum = x ELSE f \in Names(x)
         /\ \A x \in Inum : Names(x) \subseteq Dirs \X Slot /\ Names(x)' \subseteq Dirs \X Slot
         /\ \A c, y \in Dirs : y \in Subs(c)' => (y \in Subs(c) \/ (c = d /\ Hole.inum = y))
    <3>1. d \in Dirs
      BY <1>3, DirBlocks
    <3>2. /\ at \in Slot /\ Dirs' = Dirs
          /\ \A c \in Dirs, j \in Slot :
                block'[dinode'[c].addr].slot[j] = IF c = d /\ j = at THEN Hole
                                                  ELSE block[dinode[c].addr].slot[j]
      BY <1>3, <2>13
    <3>3. PICK e : e = Hole
      OBVIOUS
    <3>4. \A c \in Dirs, j \in Slot :
             block'[dinode'[c].addr].slot[j] = IF c = d /\ j = at THEN e
                                               ELSE block[dinode[c].addr].slot[j]
      BY <3>2, <3>3
    <3>5. /\ \A x \in Inum : \A f \in Dirs \X Slot :
               f \in Names(x)' <=> IF f = <<d, at>> THEN e.inum = x ELSE f \in Names(x)
          /\ \A x \in Inum : Names(x) \subseteq Dirs \X Slot /\ Names(x)' \subseteq Dirs \X Slot
          /\ \A c, y \in Dirs : y \in Subs(c)' => (y \in Subs(c) \/ (c = d /\ e.inum = y))
      BY <2>11, <3>1, <3>2, <3>4, <3>3, EntriesAfter, SMTT(30)
    <3> QED BY <3>5, <3>3
  <2>20. /\ \A x \in Inum : Names(x)' \subseteq Names(x)
         /\ Names(i)' \subseteq Names(i) \ {<<d, at>>}
    <3>1. d \in Dirs
      BY <1>3, DirBlocks
    <3>2. /\ \A x \in Inum : \A f \in Dirs \X Slot :
               f \in Names(x)' <=> IF f = <<d, at>> THEN Hole.inum = x ELSE f \in Names(x)
          /\ \A x \in Inum : Names(x)' \subseteq Dirs \X Slot
      BY <2>19
    <3> QED BY <1>3, <2>11, <3>2, Numbers
  <2>21. /\ \A x \in Inum : Subs(x)' \subseteq Subs(x)
         /\ isdir => Subs(d)' \subseteq Subs(d) \ {i}
    <3>1. \A x \in Inum : Subs(x)' \subseteq Subs(x)
      <4>1. \A c, y \in Dirs : y \in Subs(c)' => y \in Subs(c)
        <5>1. \A c, y \in Dirs : y \in Subs(c)' => (y \in Subs(c) \/ (c = d /\ Hole.inum = y))
          BY <2>19
        <5>2. \A y \in Dirs : y # 0
          BY Numbers DEF Dirs, Allocated
        <5> QED BY <2>11, <5>1, <5>2
      <4>2. \A x : Subs(x)' # {} => x \in Dirs' /\ Subs(x)' \subseteq Dirs'
        BY DEF Subs, Subdirs
      <4> QED BY <2>13, <4>1, <4>2
    <3>2. ASSUME isdir, i \in Subs(d)' PROVE FALSE
      <4>1. PICK k \in Slot : block'[dinode'[d].addr].slot[k].inum = i
        BY <3>2 DEF Subs, Subdirs
      <4>2. d \in Dirs'
        BY <1>3, <2>13, DirBlocks
      <4>3. <<d, k>> \in Names(i)'
        BY <4>1, <4>2 DEF Names
      <4> QED BY <2>1, <2>20, <3>2, <4>3
    <3>3. isdir => Subs(d)' \subseteq Subs(d) \ {i}
      <4> HIDE DEF isdir
      <4> QED BY <1>3, <3>1, <3>2
    <3> HIDE DEF isdir
    <3> QED BY <3>1, <3>3
  <2>22. DirInv'
    <3>1. \A c \in Dirs', j, k \in Slot :
            LET s == block'[dinode'[c].addr].slot
            IN  s[j].inum # 0 =>
                  /\ s[j].name \in Name
                  /\ s[k].inum # 0 /\ s[j].name = s[k].name => j = k
      <4> SUFFICES ASSUME NEW c \in Dirs', NEW j \in Slot, NEW k \in Slot,
                          block'[dinode'[c].addr].slot[j].inum # 0
                   PROVE  LET s == block'[dinode'[c].addr].slot
                          IN  /\ s[j].name \in Name
                              /\ s[k].inum # 0 /\ s[j].name = s[k].name => j = k
        OBVIOUS
      <4>1. c \in Dirs
        BY <2>13
      <4>2. \A m \in Slot : block'[dinode'[c].addr].slot[m] \in
                               {Hole, block[dinode[c].addr].slot[m]}
        BY <2>13, <4>1
      <4>3. LET s == block[dinode[c].addr].slot
            IN  s[j].inum # 0 => /\ s[j].name \in Name
                                 /\ s[k].inum # 0 /\ s[j].name = s[k].name => j = k
        BY <1>1, <4>1 DEF DirInv
      <4>4. block'[dinode'[c].addr].slot[j] = block[dinode[c].addr].slot[j]
        BY <2>11, <4>2
      <4>5. \/ block'[dinode'[c].addr].slot[k] = block[dinode[c].addr].slot[k]
            \/ block'[dinode'[c].addr].slot[k].inum = 0
        BY <2>11, <4>2
      <4> QED BY <4>3, <4>4, <4>5
    <3>2. Names(RootInum)' = {}
      BY <1>1, <2>20, Numbers DEF DirInv
    <3>3. \A x \in Dirs' : \A e \in Names(x)' : /\ Names(x)' = {e}
                                               /\ block'[dinode'[x].addr].up = e[1]
      <4> SUFFICES ASSUME NEW x \in Dirs', NEW e \in Names(x)'
                   PROVE  Names(x)' = {e} /\ block'[dinode'[x].addr].up = e[1]
        OBVIOUS
      <4>1. x \in Dirs /\ Names(x)' \subseteq Names(x)
        BY <2>13, <2>20 DEF Dirs, Allocated
      <4>2. Names(x) = {e} /\ block[dinode[x].addr].up = e[1]
        BY <1>1, <4>1 DEF DirInv
      <4> QED BY <2>13, <4>1, <4>2
    <3> QED BY <3>1, <3>2, <3>3 DEF DirInv
  <2>23. LinkInv'
    <3> SUFFICES ASSUME NEW x \in Inum PROVE Due(x)' <= dinode'[x].nlink
      BY DEF LinkInv
    <3>1. Due(x) <= dinode[x].nlink /\ dinode[x].nlink \in Nat
      BY <1>1 DEF LinkInv, TypeInv, Inode
    <3>2. Pending(x)' \subseteq Pending(x) \union {p} /\ (x # i => Pending(x)' \subseteq Pending(x))
      BY <2>14, <2>15 DEF Pending, Moves, At
    <3>3. CASE x = i
      <4>1. /\ Cardinality(Names(i)') <= Cardinality(Names(i)) - 1
            /\ Cardinality(Subs(i)') <= Cardinality(Subs(i))
            /\ Cardinality(Pending(i)') <= Cardinality(Pending(i)) + 1
        BY <1>3, <2>20, <2>21, <3>2, <3>3, DueFinite, CardBounds
      <4>2. dinode'[i].nlink = dinode[i].nlink
        BY <1>3, <2>5
      <4> QED BY <1>3, <3>1, <3>3, <4>1, <4>2, DueFinite, DueFiniteNext DEF Due, Base
    <3>4. CASE x # i /\ ~(x = d /\ isdir)
      <4>1. Due(x)' \in Nat /\ Due(x) \in Nat /\ Due(x)' <= Due(x)
        BY <2>20, <2>21, <3>2, <3>4, DueLess
      <4>2. dinode'[x].nlink = dinode[x].nlink
        BY <2>2, <2>5, <3>4 DEF n
      <4> QED BY <3>1, <4>1, <4>2
    <3>5. CASE x = d /\ isdir
      <4>1. /\ Cardinality(Names(x)') <= Cardinality(Names(x))
            /\ Cardinality(Subs(x)') <= Cardinality(Subs(x)) - 1
            /\ Cardinality(Pending(x)') <= Cardinality(Pending(x))
        <5>1. Pending(x)' \subseteq Pending(x)
          BY <1>3, <3>2, <3>5
        <5>2. Subs(x)' \subseteq Subs(x) \ {i} /\ i \in Subs(x)
          BY <2>1, <2>21, <3>5
        <5> QED BY <2>20, <5>1, <5>2, DueFinite, CardBounds
      <4>2. dinode'[x].nlink = dinode[x].nlink - 1
        BY <2>2, <2>5, <3>5 DEF n
      <4> QED BY <3>1, <4>1, <4>2, DueFinite, DueFiniteNext DEF Due, Base
    <3> QED BY <3>3, <3>4, <3>5
  <2>24. NoPanic'
    BY <2>6, Parts DEF NoPanic
  <2> QED BY <2>13, <2>14, <2>16, <2>17, <2>18, <2>22, <2>23, <2>24 DEF IInv, CallInv
<1> QED BY <1>5, <1>6, <1>7

LEMMA LinkDirStep ==
  ASSUME IInv, NEW p \in Proc, LinkDir(p)
  PROVE  IInv'
<1> DEFINE l == loc[p]
<1>1. /\ pc[p] = "link_dir" /\ At(p) = "link_dir" /\ Place(p) /\ Held(p) /\ TypeInv /\ CacheInv
      /\ CallInv /\ DiskInv /\ DirInv /\ LinkInv /\ LocksMatch /\ RefInv /\ l \in Local
  BY Parts, Fields DEF LinkDir, Runs, At, IInv
<1>2. PICK d \in Inum, old \in Inum : d = l.dp /\ old = l.old
  BY <1>1, Fields DEF Place
<1>3. /\ d # 0 /\ dinode[d].type = "dir" /\ Alive(d) /\ Typed(d) /\ old # 0
      /\ dinode[old].type \in {"file", "sym"} /\ l.ip = 0 /\ l.put = 0 /\ l.path # <<>>
  BY <1>1, <1>2, Fields DEF Place, PutPlace, Alive
<1>4. PICK name, x : name = Head(l.path) /\ x = Lookup(d, name)
  OBVIOUS
<1>5. name \in Name
  BY <1>1, <1>3, <1>4 DEF Local
<1> DEFINE finds == /\ x # 0 /\ ref' = [ref EXCEPT ![x] = @ + 1]
                    /\ holder' = [holder EXCEPT ![d] = p]
                    /\ Put(p, l, x, "link_dup") /\ block' = block
           adds == /\ x = 0 /\ block' = Linked(d, name, old)
                   /\ Put(p, [l EXCEPT !.dp = 0], d, "link_done")
                   /\ UNCHANGED <<ref, holder>>
<1>6. /\ Load({d}) /\ holder[d] = NoProc
      /\ finds \/ adds
      /\ UNCHANGED <<dinode, bitmap, ofile, panic>>
  <2> HIDE DEF l
  <2>1. d = loc[p].dp /\ old = loc[p].old /\ name = Head(loc[p].path) /\ x = Lookup(d, name)
    BY <1>2, <1>4 DEF l
  <2> QED BY <1>3, <2>1 DEF LinkDir, Ilock, Free, Get, l
<1>7. /\ core' \in [Inum -> Inode] /\ valid' \subseteq Inum /\ CacheInv'
      /\ valid' = valid \union {d}
  BY <1>1, <1>6, LoadKeeps
<1>8. Locked(p) = {}
  BY <1>1 DEF Locked
<1>9. CASE finds
  <2>1. x \in Inum /\ x # 0 /\ dinode[x].nlink > 0 /\ Alive(x)
    BY <1>3, <1>4, <1>9, LookupLinked, Numbers
  <2>2. /\ pc' = [pc EXCEPT ![p] = "put"]
        /\ loc' = [loc EXCEPT ![p] = [l EXCEPT !.put = x, !.after = "link_dup"]]
    BY <1>9 DEF Put, Goto
  <2>3. /\ pc'[p] = "put" /\ loc'[p].op = l.op /\ loc'[p].arg = l.arg /\ loc'[p].ip = 0
        /\ loc'[p].dp = d /\ loc'[p].old = old /\ loc'[p].put = x /\ loc'[p].after = "link_dup"
    BY <1>1, <1>2, <1>3, <2>2 DEF TypeInv, Local
  <2>4. At(p)' = "link_dup"
    BY <2>3 DEF At
  <2>5. Place(p)' /\ Locked(p)' = {d} /\ Fresh(p)' = 0
    BY <1>1, <1>2, <1>3, <2>1, <2>3, <2>4 DEF Place, PutPlace, Locked, Fresh
  <2>6. Held(p)'
    <3>1. HeldRefs(p)'
      BY <1>2, <1>3, <1>6, <2>1, <2>3, Fields DEF HeldRefs, Alive
    <3> QED BY <2>3, <2>4, <2>5, <3>1 DEF Held, HeldMade, HeldFree, HeldName
  <2>7. TypeInv' /\ Moves(p)
    <3>1. [l EXCEPT !.put = x, !.after = "link_dup"] \in Local
      BY <1>1, <2>1 DEF Local, Maybe, Label
    <3> QED BY <1>1, <1>6, <1>7, <1>9, <2>1, <2>2, <3>1 DEF TypeInv, Label, PutPlace, Moves
  <2>8. ASSUME NEW y \in Inum
        PROVE  /\ ref'[y] - Own(p, y)' = ref[y] - Own(p, y)
               /\ p \in Pending(y)' => p \in Pending(y)
               /\ ref'[y] # ref[y] => dinode[y].nlink > 0
               /\ holder'[y] = IF y \in Locked(p)' THEN p ELSE holder[y]
    <3>1. ref'[y] = ref[y] + Bit(x = y) /\ holder'[y] = IF y = d THEN p ELSE holder[y]
      BY <1>1, <1>9 DEF TypeInv, Bit
    <3>2. Own(p, y)' = Own(p, y) + Bit(x = y)
      <4>1. /\ loc[p].ip = 0 /\ loc[p].dp = d /\ loc[p].old = old /\ loc[p].put = 0
            /\ ofile'[p] = ofile[p] /\ y # 0
        BY <1>2, <1>3, <1>6, Numbers
      <4> HIDE DEF l
      <4> QED BY <2>3, <4>1 DEF Own, Bit
    <3>3. p \in Pending(y)' => p \in Pending(y)
      BY <1>1, <1>2, <2>3, <2>4 DEF Pending
    <3> QED BY <2>1, <2>5, <3>1, <3>2, <3>3, Fields DEF Bit
  <2>9. UNCHANGED <<disk, panic>>
    BY <1>6, <1>9 DEF disk
  <2> HIDE DEF finds, adds
  <2> QED BY <1>6, <1>7, <1>8, <2>5, <2>6, <2>7, <2>8, <2>9, QuietStep
<1>10. CASE adds
  <2>1. \A j \in Slot : LET e == block[dinode[d].addr].slot[j]
                        IN  e.inum = 0 \/ e.name # name
    BY <1>3, <1>4, <1>10, LookupLinked
  <2>2. PICK k : k = Min({j \in Slot : block[dinode[d].addr].slot[j].inum = 0})
    OBVIOUS
  <2>3. k \in Slot /\ block[dinode[d].addr].slot[k].inum = 0
    BY <1>3, <1>5, <2>1, <2>2, HoleLeft
  <2>4. PICK e : e = [name |-> name, inum |-> old]
    OBVIOUS
  <2>5. e \in Entry /\ e.inum = old /\ e.name = name
    BY <1>5, <2>4 DEF Entry, Maybe
  <2>6. block' = [block EXCEPT ![dinode[d].addr].slot[k] = e]
    BY <1>10, <2>2, <2>4, Parts DEF Linked, Written, Slots
  <2>7. /\ pc' = [pc EXCEPT ![p] = "put"]
        /\ loc' = [loc EXCEPT ![p] = [[l EXCEPT !.dp = 0] EXCEPT !.put = d,
                                                                 !.after = "link_done"]]
        /\ UNCHANGED <<dinode, bitmap, ref, holder, ofile, panic>>
    BY <1>6, <1>10 DEF Put, Goto
  <2> HIDE DEF finds, adds
  <2>8. /\ pc'[p] = "put" /\ loc'[p].op = l.op /\ loc'[p].arg = l.arg /\ loc'[p].ip = 0
        /\ loc'[p].dp = 0 /\ loc'[p].old = old /\ loc'[p].put = d /\ loc'[p].after = "link_done"
    BY <1>1, <1>2, <1>3, <2>7 DEF TypeInv, Local
  <2>9. At(p)' = "link_done"
    BY <2>8 DEF At
  <2>10. Place(p)' /\ Locked(p)' = {} /\ Fresh(p)' = 0
    BY <1>1, <1>2, <1>3, <2>8, <2>9 DEF Place, PutPlace, Locked, Fresh
  <2>11. Held(p)'
    <3>1. HeldRefs(p)'
      BY <1>2, <1>3, <2>7, <2>8, Fields DEF HeldRefs, Alive
    <3> QED BY <2>8, <2>9, <2>10, <3>1 DEF Held, HeldMade, HeldFree, HeldName
  <2>12. /\ DiskInv' /\ Dirs' = Dirs /\ block' \in [Block -> Content]
         /\ \A c \in Dirs, j \in Slot :
               block'[dinode'[c].addr].slot[j] = IF c = d /\ j = k THEN e
                                                 ELSE block[dinode[c].addr].slot[j]
         /\ \A c \in Dirs : block'[dinode'[c].addr].up = block[dinode[c].addr].up
         /\ \A c \in Dirs \ {d} : block'[dinode[c].addr] = block[dinode[c].addr]
    <3>1. dinode' \in [Inum -> Inode]
      BY <1>1, <2>7 DEF TypeInv
    <3> QED BY <1>3, <2>3, <2>5, <2>6, <2>7, <3>1, EntryStep
  <2>13. TypeInv' /\ Moves(p)
    <3>1. [[l EXCEPT !.dp = 0] EXCEPT !.put = d, !.after = "link_done"] \in Local
      BY <1>1 DEF Local, Maybe, Label
    <3> QED BY <1>1, <1>7, <2>7, <2>12, <3>1 DEF TypeInv, Moves, Label, PutPlace
  <2>14. ASSUME NEW y \in Inum
         PROVE  /\ Own(p, y)' = Own(p, y) /\ ref'[y] = ref[y] /\ holder'[y] = holder[y]
                /\ p \notin Pending(y)' /\ (p \in Pending(y) <=> y = old)
    <3>1. Own(p, y)' = Own(p, y)
      <4>1. /\ loc[p].ip = 0 /\ loc[p].dp = d /\ loc[p].old = old /\ loc[p].put = 0
            /\ ofile'[p] = ofile[p]
        BY <1>2, <1>3, <2>7
      <4> HIDE DEF l
      <4> QED BY <2>8, <4>1 DEF Own, Bit
    <3>2. p \notin Pending(y)'
      BY <2>8, <2>9, Numbers DEF Pending
    <3>3. p \in Pending(y) <=> y = old
      BY <1>1, <1>2, <1>3, Numbers DEF Pending
    <3> QED BY <2>7, <3>1, <3>2, <3>3
  <2>15. LocksMatch' /\ RefInv'
    BY <1>1, <1>8, <2>7, <2>10, <2>13, <2>14, LocksAndRefs
  <2>16. PlaceInv' /\ HeldInv' /\ FreshInv' /\ LoadedInv'
    <3>1. \A q \in Proc \ {p} : Fresh(q) # 0 => dinode'[Fresh(q)].addr = 0
      BY <2>7, Parts DEF Held, HeldMade
    <3>2. \A q \in Proc \ {p} : \A y \in Locked(q) : y # d /\ y \in Inum
      BY <1>6, NotOthers DEF Locked
    <3>3. \A q \in Proc \ {p} : \A y \in Locked(q) :
             /\ dinode'[y] = dinode[y]
             /\ dinode[y].type = "dir" => block'[dinode[y].addr] = block[dinode[y].addr]
      BY <2>7, <2>12, <3>2 DEF Dirs, Allocated
    <3>4. \A q \in Proc \ {p} : pc[q] = "put_free" => ref'[loc[q].put] = ref[loc[q].put]
      BY <2>7
    <3>5. Locked(p)' \subseteq valid'
      BY <2>10
    <3>6. \A q \in Proc \ {p}, y \in Inum : y \in valid \ valid' => Own(q, y) = 0
      BY <1>7
    <3> QED BY <1>1, <2>7, <2>10, <2>11, <2>13, <3>1, <3>3, <3>4, <3>5, <3>6, CallsKept
  <2>17. d \in Dirs /\ old \notin Dirs /\ RootInum # old
    <3>1. d \in Dirs
      BY <1>3, DirBlocks
    <3>2. dinode[RootInum].type = "dir"
      BY RootLinked
    <3> QED BY <1>3, <3>1, <3>2 DEF Dirs
  <2>18. /\ \A y \in Inum : \A f \in Dirs \X Slot :
              f \in Names(y)' <=> IF f = <<d, k>> THEN e.inum = y ELSE f \in Names(y)
         /\ \A y \in Inum : Names(y) \subseteq Dirs \X Slot /\ Names(y)' \subseteq Dirs \X Slot
         /\ \A c, y \in Dirs : y \in Subs(c)' => (y \in Subs(c) \/ (c = d /\ e.inum = y))
    <3>1. /\ k \in Slot /\ Dirs' = Dirs /\ e \in Entry
          /\ \A c \in Dirs, j \in Slot :
                block'[dinode'[c].addr].slot[j] = IF c = d /\ j = k THEN e
                                                  ELSE block[dinode[c].addr].slot[j]
      BY <2>3, <2>5, <2>12
    <3> QED BY <2>17, <3>1, EntriesAfter, SMTT(30)
  <2>19. /\ \A y \in Inum \ {old} : Names(y)' \subseteq Names(y)
         /\ Names(old)' \subseteq Names(old) \union {<<d, k>>}
    BY <2>5, <2>18
  <2>20. \A y \in Inum : Subs(y)' \subseteq Subs(y)
    <3>1. \A c, y \in Dirs : y \in Subs(c)' => y \in Subs(c)
      BY <2>5, <2>17, <2>18
    <3>2. \A y : Subs(y)' # {} => y \in Dirs' /\ Subs(y)' \subseteq Dirs'
      BY DEF Subs, Subdirs
    <3> QED BY <2>12, <3>1, <3>2
  <2>21. DirInv'
    <3>1. ASSUME NEW c \in Dirs', NEW j \in Slot, NEW m \in Slot,
                 block'[dinode'[c].addr].slot[j].inum # 0
          PROVE  LET s == block'[dinode'[c].addr].slot
                 IN  /\ s[j].name \in Name
                     /\ s[m].inum # 0 /\ s[j].name = s[m].name => j = m
      <4>1. c \in Dirs
        BY <2>12
      <4>2. \A a, b \in Slot :
              LET s == block[dinode[c].addr].slot
              IN  s[a].inum # 0 => /\ s[a].name \in Name
                                   /\ s[b].inum # 0 /\ s[a].name = s[b].name => a = b
        BY <1>1, <4>1 DEF DirInv
      <4>3. \A a \in Slot : block'[dinode'[c].addr].slot[a] =
                              IF c = d /\ a = k THEN e ELSE block[dinode[c].addr].slot[a]
        BY <2>12, <4>1
      <4>4. CASE c = d
        <5> DEFINE s == block'[dinode'[c].addr].slot
                   t == block[dinode[c].addr].slot
        <5>1. \A a \in Slot : s[a] = IF a = k THEN e ELSE t[a]
          BY <4>3, <4>4
        <5>2. /\ s[j].inum # 0 /\ t[k].inum = 0 /\ e.name = name /\ name \in Name
              /\ \A a \in Slot : t[a].inum = 0 \/ t[a].name # name
          BY <1>5, <2>1, <2>3, <2>5, <3>1, <4>4
        <5>3. \A a, b \in Slot : t[a].inum # 0 => /\ t[a].name \in Name
                                                  /\ t[b].inum # 0 /\ t[a].name = t[b].name => a = b
          BY <4>2
        <5> HIDE DEF s, t
        <5>4. s[j].name \in Name
          BY <5>1, <5>2, <5>3
        <5>5. s[m].inum # 0 /\ s[j].name = s[m].name => j = m
          BY <5>1, <5>2, <5>3
        <5> QED BY <5>4, <5>5 DEF s
      <4>5. CASE c # d
        <5>1. \A a \in Slot : block'[dinode'[c].addr].slot[a] = block[dinode[c].addr].slot[a]
          BY <4>3, <4>5
        <5> QED BY <3>1, <4>2, <5>1
      <4> QED BY <4>4, <4>5
    <3>2. Names(RootInum)' = {}
      BY <1>1, <2>17, <2>19, Numbers DEF DirInv
    <3>3. ASSUME NEW y \in Dirs', NEW f \in Names(y)'
          PROVE  Names(y)' = {f} /\ block'[dinode'[y].addr].up = f[1]
      <4>1. y \in Dirs /\ y # old /\ Names(y)' \subseteq Names(y)
        BY <2>12, <2>17, <2>19 DEF Dirs, Allocated
      <4>2. Names(y) = {f} /\ block[dinode[y].addr].up = f[1]
        BY <1>1, <3>3, <4>1 DEF DirInv
      <4> QED BY <2>12, <3>3, <4>1, <4>2
    <3> QED BY <3>1, <3>2, <3>3 DEF DirInv
  <2>22. LinkInv'
    <3> SUFFICES ASSUME NEW y \in Inum PROVE Due(y)' <= dinode'[y].nlink
      BY DEF LinkInv
    <3>1. Due(y) <= dinode[y].nlink /\ dinode[y].nlink \in Nat /\ dinode'[y].nlink = dinode[y].nlink
      BY <1>1, <2>7 DEF LinkInv, TypeInv, Inode
    <3>2. Pending(y)' \subseteq Pending(y) /\ (y = old => Pending(y)' \subseteq Pending(y) \ {p})
      BY <2>13, <2>14 DEF Pending, Moves, At
    <3>3. CASE y = old
      <4>1. /\ Cardinality(Names(y)') <= Cardinality(Names(y)) + 1
            /\ Cardinality(Subs(y)') <= Cardinality(Subs(y))
            /\ Cardinality(Pending(y)') <= Cardinality(Pending(y)) - 1
        <5>1. p \in Pending(y)
          BY <2>14, <3>3
        <5> QED BY <2>19, <2>20, <3>2, <3>3, <5>1, DueFinite, CardBounds
      <4> QED BY <3>1, <4>1, DueFinite, DueFiniteNext DEF Due, Base
    <3>4. CASE y # old
      <4>1. Due(y)' \in Nat /\ Due(y) \in Nat /\ Due(y)' <= Due(y)
        BY <2>19, <2>20, <3>2, <3>4, DueLess
      <4> QED BY <3>1, <4>1
    <3> QED BY <3>3, <3>4
  <2>23. NoPanic'
    BY <2>7, Parts DEF NoPanic
  <2> QED BY <1>7, <2>12, <2>13, <2>15, <2>16, <2>21, <2>22, <2>23 DEF IInv, CallInv
<1> QED BY <1>6, <1>9, <1>10

(***************************************************************************)
(* An inode is made.                                                       *)
(***************************************************************************)

\* The image after create(): the inode i of type t, with the block b if it is a
\* directory, and an entry for it in the slot k of d.
MadeInode(t, b)  == [type |-> t, nlink |-> 1, addr |-> b, size |-> Bit(b # 0)]
MadeDinode(i, d, t, b) ==
  [x \in Inum |-> IF x = i THEN MadeInode(t, b)
                  ELSE IF x = d THEN [dinode[d] EXCEPT !.nlink = @ + Bit(b # 0)] ELSE dinode[x]]
MadeEntry(name, i) == [name |-> name, inum |-> i]
MadeBlock(i, d, b, k, name) ==
  [c \in Block |-> IF c = b THEN [Zeroed EXCEPT !.self = i, !.up = d]
                   ELSE [block EXCEPT ![dinode[d].addr].slot[k] = MadeEntry(name, i)][c]]

LEMMA MadeInodes ==
  ASSUME IInv, NEW d \in Inum, dinode[d].type = "dir", NEW i \in Inum, ~Alive(i),
         NEW t \in {"dir", "file", "sym"}, NEW b \in Block \union {0}, b # 0 <=> t = "dir",
         dinode' = MadeDinode(i, d, t, b)
  PROVE  /\ i # d /\ i # RootInum /\ dinode' \in [Inum -> Inode]
         /\ dinode'[i] \in Inode /\ dinode'[i].type = t /\ dinode'[i].nlink = 1
         /\ dinode'[i].addr = b /\ dinode'[i].size = IF b = 0 THEN 0 ELSE 1
         /\ dinode'[d] \in Inode
         /\ dinode'[d].nlink = dinode[d].nlink + (IF b = 0 THEN 0 ELSE 1)
         /\ \A x \in Inum : x # i => /\ dinode'[x].type = dinode[x].type
                                     /\ dinode'[x].addr = dinode[x].addr
                                     /\ dinode'[x].size = dinode[x].size
         /\ \A x \in Inum : x # i /\ x # d => dinode'[x] = dinode[x]
<1>1. i # d /\ dinode \in [Inum -> Inode] /\ dinode[d] \in Inode
  BY Parts DEF TypeInv, Alive
<1>2. i # RootInum
  BY RootLinked DEF Alive
<1> DEFINE ni == MadeInode(t, b)
           nd == [dinode[d] EXCEPT !.nlink = @ + Bit(b # 0)]
<1>3. ni \in Inode /\ ni.type = t /\ ni.nlink = 1 /\ ni.addr = b /\ ni.size = IF b = 0 THEN 0 ELSE 1
  BY DEF MadeInode, Inode, Bit
<1>4. /\ nd \in Inode /\ nd.type = dinode[d].type /\ nd.addr = dinode[d].addr
      /\ nd.size = dinode[d].size /\ nd.nlink = dinode[d].nlink + (IF b = 0 THEN 0 ELSE 1)
  BY <1>1 DEF Inode, Bit
<1> HIDE DEF ni, nd
<1>5. dinode' = [x \in Inum |-> IF x = i THEN ni ELSE IF x = d THEN nd ELSE dinode[x]]
  BY DEF MadeDinode, ni, nd
<1>6. dinode'[i] = ni /\ dinode'[d] = nd /\ \A x \in Inum : x # i /\ x # d => dinode'[x] = dinode[x]
  BY <1>1, <1>5
<1>7. dinode' \in [Inum -> Inode]
  BY <1>1, <1>3, <1>4, <1>5
<1>8. \A x \in Inum : x # i => /\ dinode'[x].type = dinode[x].type
                               /\ dinode'[x].addr = dinode[x].addr
                               /\ dinode'[x].size = dinode[x].size
  BY <1>4, <1>6
<1> QED BY <1>1, <1>2, <1>3, <1>4, <1>6, <1>7, <1>8

LEMMA MadeBlocks ==
  ASSUME IInv, NEW d \in Inum, dinode[d].type = "dir", NEW i \in Inum,
         NEW b \in Block \union {0}, b \notin bitmap, NEW k \in Slot, NEW name \in Name,
         block' = MadeBlock(i, d, b, k, name)
  PROVE  /\ block' \in [Block -> Content]
         /\ b # 0 => /\ block'[b].self = i /\ block'[b].up = d
                     /\ \A j \in Slot : block'[b].slot[j].inum = 0
         /\ \A a \in Block : a # b => /\ block'[a].self = block[a].self
                                      /\ block'[a].up = block[a].up
                                      /\ block'[a].target = block[a].target
         /\ \A a \in Block : a # b /\ a # dinode[d].addr => block'[a] = block[a]
         /\ \A j \in Slot : block'[dinode[d].addr].slot[j] =
                              IF j = k THEN MadeEntry(name, i) ELSE block[dinode[d].addr].slot[j]
         /\ \A x \in Inum : dinode[x].addr # 0 => dinode[x].addr # b /\ dinode[x].addr \in Block
<1>1. PICK a : a = dinode[d].addr
  OBVIOUS
<1>2. a \in Block /\ a # b /\ block[a] \in Content /\ block \in [Block -> Content]
  BY <1>1, DirBlocks, Parts DEF TypeInv
<1> DEFINE e == MadeEntry(name, i)
           zb == [Zeroed EXCEPT !.self = i, !.up = d]
           new == [block[a] EXCEPT !.slot[k] = e]
<1>3. e \in Entry
  BY DEF MadeEntry, Entry, Maybe
<1>4. /\ zb \in Content /\ zb.self = i /\ zb.up = d /\ \A j \in Slot : zb.slot[j].inum = 0
  <2>1. Hole \in Entry /\ Hole.inum = 0 /\ i \in Maybe /\ d \in Maybe /\ 0 \in Maybe
    BY DEF Hole, Entry, Maybe
  <2>2. Zeroed \in Content /\ \A j \in Slot : Zeroed.slot[j] = Hole
    BY <2>1 DEF Zeroed, Content
  <2>3. zb \in Content /\ zb.self = i /\ zb.up = d /\ zb.slot = Zeroed.slot
    BY <2>1, <2>2 DEF Content
  <2> HIDE DEF zb
  <2> QED BY <2>1, <2>2, <2>3
<1> HIDE DEF e, zb
<1>5. /\ new \in Content /\ new.self = block[a].self /\ new.up = block[a].up
      /\ new.target = block[a].target
      /\ \A j \in Slot : new.slot[j] = IF j = k THEN e ELSE block[a].slot[j]
  BY <1>2, <1>3 DEF Content
<1> HIDE DEF new
<1>6. block' = [c \in Block |-> IF c = b THEN zb ELSE [block EXCEPT ![a] = new][c]]
  BY <1>1 DEF MadeBlock, zb, new, e
<1>7. \A c \in Block : block'[c] = IF c = b THEN zb ELSE IF c = a THEN new ELSE block[c]
  BY <1>2, <1>6
<1>8. block' \in [Block -> Content]
  <2>1. block' = [c \in Block |-> block'[c]]
    BY <1>6
  <2>2. \A c \in Block : block'[c] \in Content
    BY <1>2, <1>4, <1>5, <1>7
  <2> QED BY <2>1, <2>2
<1>9. b # 0 => /\ block'[b].self = i /\ block'[b].up = d
               /\ \A j \in Slot : block'[b].slot[j].inum = 0
  BY <1>4, <1>7
<1>10. \A c \in Block : c # b => /\ block'[c].self = block[c].self
                                 /\ block'[c].up = block[c].up
                                 /\ block'[c].target = block[c].target
  BY <1>5, <1>7
<1>11. \A c \in Block : c # b /\ c # a => block'[c] = block[c]
  BY <1>7
<1>12. \A j \in Slot : block'[a].slot[j] = IF j = k THEN e ELSE block[a].slot[j]
  <2>1. block'[a] = new
    BY <1>2, <1>7
  <2> QED BY <1>5, <2>1
<1>13. \A x \in Inum : dinode[x].addr # 0 => dinode[x].addr # b /\ dinode[x].addr \in Block
  <2>1. /\ bitmap = {dinode[x].addr : x \in Inum} \ {0}
        /\ \A x \in Inum : dinode[x].addr \in Block \union {0}
    BY Parts DEF DiskInv, TypeInv, Inode
  <2> QED BY <2>1
<1> QED BY <1>1, <1>8, <1>9, <1>10, <1>11, <1>12, <1>13 DEF e

\* create() is about to make an inode in d.
Makes(i, d, t, b, k, name) ==
  /\ d \in Inum /\ dinode[d].type = "dir" /\ i \in Inum /\ ~Alive(i)
  /\ t \in {"dir", "file", "sym"} /\ b \in Block \union {0} /\ b \notin bitmap
  /\ b # 0 <=> t = "dir"
  /\ k \in Slot /\ block[dinode[d].addr].slot[k].inum = 0 /\ name \in Name
  /\ \A j \in Slot : LET e == block[dinode[d].addr].slot[j]
                     IN  e.inum = 0 \/ e.name # name
  /\ dinode' = MadeDinode(i, d, t, b) /\ block' = MadeBlock(i, d, b, k, name)
  /\ bitmap' = bitmap \union ({b} \ {0})

LEMMA MadeFacts ==
  ASSUME IInv, NEW i, NEW d, NEW t, NEW b, NEW k, NEW name, Makes(i, d, t, b, k, name)
  PROVE  /\ i # d /\ i # RootInum /\ i \in Inum /\ d \in Inum /\ k \in Slot
         /\ dinode' \in [Inum -> Inode] /\ block' \in [Block -> Content]
         /\ dinode'[i] \in Inode /\ dinode'[i].type = t /\ dinode'[i].nlink = 1
         /\ dinode'[i].addr = b /\ dinode'[i].size = IF b = 0 THEN 0 ELSE 1
         /\ dinode'[d].nlink = dinode[d].nlink + (IF b = 0 THEN 0 ELSE 1)
         /\ \A x \in Inum : x # i => /\ dinode'[x].type = dinode[x].type
                                     /\ dinode'[x].addr = dinode[x].addr
                                     /\ dinode'[x].size = dinode[x].size
         /\ \A x \in Inum : x # i /\ x # d => dinode'[x] = dinode[x]
         /\ b # 0 => /\ block'[b].self = i /\ block'[b].up = d
                     /\ \A j \in Slot : block'[b].slot[j].inum = 0
         /\ \A a \in Block : a # b => /\ block'[a].self = block[a].self
                                      /\ block'[a].up = block[a].up
                                      /\ block'[a].target = block[a].target
         /\ \A a \in Block : a # b /\ a # dinode[d].addr => block'[a] = block[a]
         /\ \A j \in Slot : block'[dinode[d].addr].slot[j] =
                              IF j = k THEN MadeEntry(name, i) ELSE block[dinode[d].addr].slot[j]
         /\ \A x \in Inum : dinode[x].addr # 0 => dinode[x].addr # b /\ dinode[x].addr \in Block
<1>1. /\ d \in Inum /\ dinode[d].type = "dir" /\ i \in Inum /\ ~Alive(i)
      /\ t \in {"dir", "file", "sym"} /\ b \in Block \union {0} /\ b \notin bitmap
      /\ (b # 0 <=> t = "dir") /\ k \in Slot /\ name \in Name
      /\ dinode' = MadeDinode(i, d, t, b) /\ block' = MadeBlock(i, d, b, k, name)
  BY DEF Makes
<1>2. /\ i # d /\ i # RootInum /\ dinode' \in [Inum -> Inode]
      /\ dinode'[i] \in Inode /\ dinode'[i].type = t /\ dinode'[i].nlink = 1
      /\ dinode'[i].addr = b /\ dinode'[i].size = IF b = 0 THEN 0 ELSE 1
      /\ dinode'[d].nlink = dinode[d].nlink + (IF b = 0 THEN 0 ELSE 1)
      /\ \A x \in Inum : x # i => /\ dinode'[x].type = dinode[x].type
                                  /\ dinode'[x].addr = dinode[x].addr
                                  /\ dinode'[x].size = dinode[x].size
      /\ \A x \in Inum : x # i /\ x # d => dinode'[x] = dinode[x]
  BY <1>1, MadeInodes
<1>3. /\ block' \in [Block -> Content]
      /\ b # 0 => /\ block'[b].self = i /\ block'[b].up = d
                  /\ \A j \in Slot : block'[b].slot[j].inum = 0
      /\ \A a \in Block : a # b => /\ block'[a].self = block[a].self
                                   /\ block'[a].up = block[a].up
                                   /\ block'[a].target = block[a].target
      /\ \A a \in Block : a # b /\ a # dinode[d].addr => block'[a] = block[a]
      /\ \A j \in Slot : block'[dinode[d].addr].slot[j] =
                           IF j = k THEN MadeEntry(name, i) ELSE block[dinode[d].addr].slot[j]
      /\ \A x \in Inum : dinode[x].addr # 0 => dinode[x].addr # b /\ dinode[x].addr \in Block
  BY <1>1, MadeBlocks
<1> QED BY <1>1, <1>2, <1>3

\* Of these, what is said of the inodes.
InodesMade(i, d, t, b) ==
  /\ i # d /\ i # RootInum /\ i \in Inum
  /\ dinode' \in [Inum -> Inode] /\ block' \in [Block -> Content]
  /\ dinode'[i] \in Inode /\ dinode'[i].type = t /\ dinode'[i].addr = b
  /\ \A x \in Inum : x # i => /\ dinode'[x].type = dinode[x].type
                              /\ dinode'[x].addr = dinode[x].addr
  /\ \A x \in Inum : x # i /\ x # d => dinode'[x] = dinode[x]

LEMMA MakesInodes ==
  ASSUME IInv, NEW i, NEW d, NEW t, NEW b, NEW k, NEW name, Makes(i, d, t, b, k, name)
  PROVE  InodesMade(i, d, t, b)
<1>1. i \in Inum /\ i # d /\ i # RootInum
  BY MadeFacts
<1>2. dinode' \in [Inum -> Inode]
  BY MadeFacts
<1>3. block' \in [Block -> Content]
  BY MadeFacts
<1>4. dinode'[i] \in Inode /\ dinode'[i].type = t /\ dinode'[i].addr = b
  BY MadeFacts
<1>5. \A x \in Inum : x # i => dinode'[x].type = dinode[x].type /\ dinode'[x].addr = dinode[x].addr
  BY MadeFacts
<1>6. \A x \in Inum : x # i /\ x # d => dinode'[x] = dinode[x]
  BY MadeFacts
<1> QED BY <1>1, <1>2, <1>3, <1>4, <1>5, <1>6 DEF InodesMade

LEMMA MadeDisk ==
  ASSUME IInv, NEW i, NEW d, NEW t, NEW b, NEW k, NEW name, Makes(i, d, t, b, k, name)
  PROVE  DiskInv'
<1>1. /\ t \in {"dir", "file", "sym"} /\ b \in Block \union {0} /\ b \notin bitmap
      /\ (b # 0 <=> t = "dir") /\ bitmap' = bitmap \union ({b} \ {0}) /\ ~Alive(i)
  BY DEF Makes
<1>2. DiskInv /\ TypeInv /\ 0 \notin Block
  BY Parts, Numbers
<1>3. /\ i \in Inum /\ i # RootInum
      /\ dinode'[i].type = t /\ dinode'[i].addr = b /\ dinode'[i].size = IF b = 0 THEN 0 ELSE 1
      /\ \A x \in Inum : x # i => /\ dinode'[x].type = dinode[x].type
                                  /\ dinode'[x].addr = dinode[x].addr
                                  /\ dinode'[x].size = dinode[x].size
      /\ \A x \in Inum : x # i /\ x # d => dinode'[x] = dinode[x]
  BY MadeFacts
<1>4. /\ b # 0 => block'[b].self = i /\ block'[b].up = d
      /\ \A a \in Block : a # b => /\ block'[a].self = block[a].self
                                   /\ block'[a].up = block[a].up
                                   /\ block'[a].target = block[a].target
      /\ \A x \in Inum : dinode[x].addr # 0 => dinode[x].addr # b /\ dinode[x].addr \in Block
  BY MadeFacts
<1>5. dinode[i].addr = 0
  BY <1>1, <1>2, <1>3 DEF DiskInv
<1>6. \A x \in Inum : ~Alive(x)' => dinode'[x].nlink = 0 /\ dinode'[x].addr = 0
  <2> SUFFICES ASSUME NEW x \in Inum, ~Alive(x)' PROVE dinode'[x].nlink = 0 /\ dinode'[x].addr = 0
    OBVIOUS
  <2>1. dinode'[x].type = "free"
    BY DEF Alive
  <2>2. x # i /\ dinode[x].type = "free"
    BY <1>1, <1>3, <2>1
  <2>3. x # d
    BY <2>2 DEF Makes
  <2> QED BY <1>2, <1>3, <2>2, <2>3 DEF DiskInv, Alive
<1>7. \A x \in Inum : dinode'[x].size = IF dinode'[x].addr = 0 THEN 0 ELSE 1
  BY <1>2, <1>3 DEF DiskInv
<1>8. \A x \in Inum : dinode'[x].type = "dir" =>
        dinode'[x].addr # 0 /\ block'[dinode'[x].addr].self = x
  <2> SUFFICES ASSUME NEW x \in Inum, dinode'[x].type = "dir"
               PROVE  dinode'[x].addr # 0 /\ block'[dinode'[x].addr].self = x
    OBVIOUS
  <2>1. CASE x = i
    BY <1>1, <1>3, <1>4, <2>1
  <2>2. CASE x # i
    <3>1. dinode[x].addr # 0 /\ block[dinode[x].addr].self = x
      BY <1>2, <1>3, <2>2 DEF DiskInv
    <3> QED BY <1>3, <1>4, <2>2, <3>1
  <2> QED BY <2>1, <2>2
<1>9. \A x, y \in Inum : dinode'[x].addr = dinode'[y].addr /\ dinode'[x].addr # 0 => x = y
  BY <1>2, <1>3, <1>4 DEF DiskInv
<1>10. bitmap' = {dinode'[x].addr : x \in Inum} \ {0}
  <2>1. bitmap = {dinode[x].addr : x \in Inum} \ {0}
    BY <1>2 DEF DiskInv
  <2>2. ASSUME NEW a PROVE a \in bitmap' <=> a \in {dinode'[x].addr : x \in Inum} \ {0}
    BY <1>1, <1>3, <1>5, <2>1
  <2> QED BY <2>2
<1>11. \A x \in Inum : dinode'[x].type = "sym" /\ dinode'[x].addr # 0 => Target(x)' \in Path
  <2> SUFFICES ASSUME NEW x \in Inum, dinode'[x].type = "sym", dinode'[x].addr # 0
               PROVE  block'[dinode'[x].addr].target \in Path
    BY DEF Target
  <2>1. x # i
    BY <1>1, <1>3
  <2>2. block[dinode[x].addr].target \in Path
    BY <1>2, <1>3, <2>1 DEF DiskInv, Target
  <2> QED BY <1>3, <1>4, <2>1, <2>2
<1>12. dinode'[RootInum].type = "dir" /\ block'[dinode'[RootInum].addr].up = RootInum
  <2>1. /\ dinode[RootInum].type = "dir" /\ block[dinode[RootInum].addr].up = RootInum
        /\ dinode[RootInum].addr # 0
    BY <1>2, Numbers DEF DiskInv
  <2> QED BY <1>3, <1>4, <2>1, Numbers
<1> QED BY <1>6, <1>7, <1>8, <1>9, <1>10, <1>11, <1>12 DEF DiskInv

\* The entries and the directories: just one of each is new.
LEMMA MadeEntries ==
  ASSUME IInv, NEW i, NEW d, NEW t, NEW b, NEW k, NEW name, Makes(i, d, t, b, k, name)
  PROVE  /\ Dirs' = IF t = "dir" THEN Dirs \union {i} ELSE Dirs
         /\ \A c \in Dirs \ {d} : block'[dinode'[c].addr] = block[dinode[c].addr]
         /\ \A c \in Dirs : block'[dinode'[c].addr].up = block[dinode[c].addr].up
         /\ \A x \in Inum \ {i} : Names(x)' \subseteq Names(x)
         /\ Names(i)' \subseteq {<<d, k>>}
         /\ Subs(i)' = {}
         /\ \A c \in Dirs :
               Subs(c)' \subseteq Subs(c) \union (IF c = d /\ t = "dir" THEN {i} ELSE {})
         /\ \A x \in Inum \ {i} : x \notin Dirs => Subs(x)' = {}
         /\ Names(i) = {} /\ Pending(i) = {} /\ dinode[i].nlink = 0
<1>1. /\ t \in {"dir", "file", "sym"} /\ (b # 0 <=> t = "dir") /\ ~Alive(i)
      /\ dinode[d].type = "dir"
  BY DEF Makes
<1>2. /\ i \in Inum /\ d \in Inum /\ i # d /\ k \in Slot
      /\ dinode'[i].type = t /\ dinode'[i].addr = b
      /\ \A x \in Inum : x # i => /\ dinode'[x].type = dinode[x].type
                                  /\ dinode'[x].addr = dinode[x].addr
  BY MadeFacts
<1>3. /\ b # 0 => \A j \in Slot : block'[b].slot[j].inum = 0
      /\ \A a \in Block : a # b => block'[a].up = block[a].up
      /\ \A a \in Block : a # b /\ a # dinode[d].addr => block'[a] = block[a]
      /\ \A j \in Slot : block'[dinode[d].addr].slot[j] =
                           IF j = k THEN MadeEntry(name, i) ELSE block[dinode[d].addr].slot[j]
      /\ \A x \in Inum : dinode[x].addr # 0 => dinode[x].addr # b /\ dinode[x].addr \in Block
  BY MadeFacts
<1>4. DiskInv /\ TypeInv
  BY Parts
<1>5. Names(i) = {} /\ Pending(i) = {} /\ dinode[i].nlink = 0
  <2>1. dinode[i].nlink = 0
    BY <1>1, <1>2, <1>4 DEF DiskInv
  <2> QED BY <1>2, <2>1, Unlinked
<1>6. Dirs' = IF t = "dir" THEN Dirs \union {i} ELSE Dirs
  BY <1>1, <1>2 DEF Dirs, Allocated, Alive
<1>7. /\ d \in Dirs /\ i \notin Dirs /\ Dirs \subseteq Inum
      /\ \A c \in Dirs : c # d => dinode[c].addr # dinode[d].addr
  BY <1>1, <1>2, DirBlocks DEF Dirs, Allocated, Alive
<1>8. \A c \in Dirs : c # i /\ dinode'[c].addr = dinode[c].addr /\ dinode[c].addr # 0
  BY <1>2, <1>4, <1>7 DEF DiskInv, Dirs
<1>9. \A c \in Dirs \ {d} : block'[dinode'[c].addr] = block[dinode[c].addr]
  BY <1>3, <1>7, <1>8
<1>10. \A c \in Dirs : block'[dinode'[c].addr].up = block[dinode[c].addr].up
  BY <1>3, <1>7, <1>8
<1>11. MadeEntry(name, i).inum = i
  BY DEF MadeEntry
<1>12. ASSUME NEW c \in Dirs', NEW j \in Slot, block'[dinode'[c].addr].slot[j].inum # 0
       PROVE  /\ c \in Dirs
              /\ \/ c = d /\ j = k /\ block'[dinode'[c].addr].slot[j].inum = i
                 \/ block'[dinode'[c].addr].slot[j] = block[dinode[c].addr].slot[j]
  <2>1. CASE c = i
    BY <1>1, <1>2, <1>3, <1>6, <1>7, <1>12, <2>1
  <2>2. CASE c = d
    BY <1>2, <1>3, <1>7, <1>11, <2>2
  <2>3. CASE c # i /\ c # d
    <3>1. c \in Dirs
      BY <1>6, <2>3
    <3>2. block'[dinode'[c].addr] = block[dinode[c].addr]
      BY <1>9, <2>3, <3>1
    <3> QED BY <3>1, <3>2
  <2> QED BY <2>1, <2>2, <2>3
<1>13. ASSUME NEW x \in Inum, NEW f \in Names(x)'
       PROVE  (x = i /\ f = <<d, k>>) \/ f \in Names(x)
  <2>1. PICK c \in Dirs', j \in Slot : f = <<c, j>> /\ block'[dinode'[c].addr].slot[j].inum = x
    BY <1>13 DEF Names
  <2>2. x # 0
    BY Numbers
  <2>3. /\ c \in Dirs
        /\ \/ c = d /\ j = k /\ x = i
           \/ block[dinode[c].addr].slot[j].inum = x
    BY <1>12, <2>1, <2>2
  <2> QED BY <2>1, <2>3 DEF Names
<1>14. ASSUME NEW c \in Inum, NEW y \in Subs(c)'
       PROVE  c \in Dirs /\ (y \in Subs(c) \/ (c = d /\ y = i /\ t = "dir"))
  <2>1. PICK j \in Slot : c \in Dirs' /\ y \in Dirs' /\ block'[dinode'[c].addr].slot[j].inum = y
    BY <1>14 DEF Subs, Subdirs
  <2>2. y \in Inum /\ y # 0
    BY <1>2, <1>6, <1>7, <2>1, Numbers
  <2>3. /\ c \in Dirs
        /\ \/ c = d /\ y = i
           \/ block[dinode[c].addr].slot[j].inum = y
    BY <1>12, <2>1, <2>2
  <2>4. block[dinode[c].addr].slot[j].inum # i
    <3> SUFFICES ASSUME block[dinode[c].addr].slot[j].inum = i PROVE FALSE
      OBVIOUS
    <3>1. <<c, j>> \in Names(i)
      BY <2>3 DEF Names
    <3> QED BY <1>5, <3>1
  <2>5. CASE c = d /\ y = i
    BY <1>6, <1>7, <2>1, <2>3, <2>5
  <2>6. CASE block[dinode[c].addr].slot[j].inum = y
    <3>1. y \in Dirs
      BY <1>6, <2>1, <2>4, <2>6
    <3> QED BY <2>3, <2>6, <3>1 DEF Subs, Subdirs
  <2> QED BY <2>3, <2>5, <2>6
<1>15. \A x \in Inum \ {i} : Names(x)' \subseteq Names(x)
  BY <1>13
<1>16. Names(i)' \subseteq {<<d, k>>}
  BY <1>2, <1>5, <1>13
<1>17. Subs(i)' = {} /\ \A x \in Inum \ {i} : x \notin Dirs => Subs(x)' = {}
  BY <1>2, <1>7, <1>14
<1>18. \A c \in Dirs : Subs(c)' \subseteq Subs(c) \union (IF c = d /\ t = "dir" THEN {i} ELSE {})
  BY <1>7, <1>14
<1> QED BY <1>5, <1>6, <1>9, <1>10, <1>15, <1>16, <1>17, <1>18

LEMMA MadeDirs ==
  ASSUME IInv, NEW i, NEW d, NEW t, NEW b, NEW k, NEW name, Makes(i, d, t, b, k, name)
  PROVE  DirInv'
<1>1. /\ t \in {"dir", "file", "sym"} /\ (b # 0 <=> t = "dir") /\ name \in Name
      /\ \A j \in Slot : LET e == block[dinode[d].addr].slot[j]
                         IN  e.inum = 0 \/ e.name # name
      /\ block[dinode[d].addr].slot[k].inum = 0 /\ dinode[d].type = "dir" /\ ~Alive(i)
  BY DEF Makes
<1>2. /\ i # RootInum /\ i \in Inum /\ k \in Slot /\ d \in Inum /\ i # d
      /\ dinode'[i].addr = b
      /\ \A x \in Inum : x # i => dinode'[x].addr = dinode[x].addr
      /\ b # 0 => /\ block'[b].up = d
                  /\ \A j \in Slot : block'[b].slot[j].inum = 0
      /\ \A j \in Slot : block'[dinode[d].addr].slot[j] =
                           IF j = k THEN MadeEntry(name, i) ELSE block[dinode[d].addr].slot[j]
  BY MadeFacts
<1>3. /\ Dirs' = IF t = "dir" THEN Dirs \union {i} ELSE Dirs
      /\ \A c \in Dirs \ {d} : block'[dinode'[c].addr] = block[dinode[c].addr]
      /\ \A c \in Dirs : block'[dinode'[c].addr].up = block[dinode[c].addr].up
      /\ \A x \in Inum \ {i} : Names(x)' \subseteq Names(x)
      /\ Names(i)' \subseteq {<<d, k>>}
  BY MadeEntries
<1>4. DirInv /\ d \in Dirs /\ Dirs \subseteq Inum /\ i \notin Dirs
  BY <1>1, <1>2, Parts, DirBlocks DEF Dirs, Allocated, Alive
<1>5. MadeEntry(name, i).name = name
  BY DEF MadeEntry
<1>6. ASSUME NEW c \in Dirs', NEW j \in Slot, NEW m \in Slot,
             block'[dinode'[c].addr].slot[j].inum # 0
      PROVE  LET s == block'[dinode'[c].addr].slot
             IN  /\ s[j].name \in Name
                 /\ s[m].inum # 0 /\ s[j].name = s[m].name => j = m
  <2>1. CASE c = i
    BY <1>1, <1>2, <1>3, <1>4, <1>6, <2>1
  <2>2. \A x \in Dirs : \A u, v \in Slot :
          LET s == block[dinode[x].addr].slot
          IN  s[u].inum # 0 => /\ s[u].name \in Name
                               /\ s[v].inum # 0 /\ s[u].name = s[v].name => u = v
    BY <1>4 DEF DirInv
  <2>3. CASE c = d
    <3> DEFINE s == block'[dinode'[c].addr].slot
               o == block[dinode[c].addr].slot
               e == MadeEntry(name, i)
    <3>1. \A u \in Slot : s[u] = IF u = k THEN e ELSE o[u]
      BY <1>2, <2>3
    <3>2. /\ s[j].inum # 0 /\ o[k].inum = 0 /\ e.name = name /\ name \in Name
          /\ \A u \in Slot : o[u].inum = 0 \/ o[u].name # name
      BY <1>1, <1>5, <1>6, <2>3
    <3>3. \A u, v \in Slot : o[u].inum # 0 => /\ o[u].name \in Name
                                              /\ o[v].inum # 0 /\ o[u].name = o[v].name => u = v
      BY <1>4, <2>2, <2>3
    <3> HIDE DEF s, o, e
    <3>4. s[j].name \in Name
      BY <1>2, <3>1, <3>2, <3>3
    <3>5. s[m].inum # 0 /\ s[j].name = s[m].name => j = m
      BY <1>2, <3>1, <3>2, <3>3
    <3> QED BY <3>4, <3>5 DEF s
  <2>4. CASE c # i /\ c # d
    <3>1. c \in Dirs /\ block'[dinode'[c].addr] = block[dinode[c].addr]
      BY <1>3, <2>4
    <3>2. LET s == block[dinode[c].addr].slot
          IN  s[j].inum # 0 => /\ s[j].name \in Name
                               /\ s[m].inum # 0 /\ s[j].name = s[m].name => j = m
      BY <2>2, <3>1
    <3> QED BY <1>6, <3>1, <3>2
  <2> QED BY <2>1, <2>3, <2>4
<1>7. Names(RootInum)' = {}
  BY <1>2, <1>3, <1>4, Numbers DEF DirInv
<1>8. ASSUME NEW y \in Dirs', NEW f \in Names(y)'
      PROVE  Names(y)' = {f} /\ block'[dinode'[y].addr].up = f[1]
  <2>1. CASE y = i
    <3>1. Names(i)' = {<<d, k>>} /\ f = <<d, k>>
      BY <1>3, <1>8, <2>1
    <3>2. b # 0
      BY <1>1, <1>3, <1>4, <2>1
    <3> QED BY <1>2, <2>1, <3>1, <3>2
  <2>2. CASE y # i
    <3>1. y \in Dirs /\ Names(y)' \subseteq Names(y)
      BY <1>3, <1>4, <2>2
    <3>2. Names(y) = {f} /\ block[dinode[y].addr].up = f[1]
      BY <1>4, <1>8, <3>1 DEF DirInv
    <3> QED BY <1>3, <1>8, <3>1, <3>2
  <2> QED BY <2>1, <2>2
<1> QED BY <1>6, <1>7, <1>8 DEF DirInv

LEMMA MadeLinks ==
  ASSUME IInv, NEW i, NEW d, NEW t, NEW b, NEW k, NEW name, Makes(i, d, t, b, k, name),
         \A x \in Inum : Pending(x)' \subseteq Pending(x)
  PROVE  LinkInv'
<1>1. /\ i # d /\ i # RootInum /\ i \in Inum /\ d \in Inum
      /\ dinode'[i].nlink = 1
      /\ dinode'[d].nlink = dinode[d].nlink + (IF b = 0 THEN 0 ELSE 1)
      /\ \A x \in Inum : x # i /\ x # d => dinode'[x] = dinode[x]
  BY MadeFacts
<1>2. /\ \A x \in Inum \ {i} : Names(x)' \subseteq Names(x)
      /\ Names(i)' \subseteq {<<d, k>>}
      /\ Subs(i)' = {}
      /\ \A c \in Dirs : Subs(c)' \subseteq Subs(c) \union (IF c = d /\ t = "dir" THEN {i} ELSE {})
      /\ \A x \in Inum \ {i} : x \notin Dirs => Subs(x)' = {}
      /\ Names(i) = {} /\ Pending(i) = {}
  BY MadeEntries
<1>3. d \in Dirs /\ (b # 0 <=> t = "dir")
  BY <1>1, DirBlocks DEF Makes
<1>4. LinkInv /\ \A x \in Inum : dinode[x].nlink \in Nat
  BY Parts DEF TypeInv, Inode
<1> SUFFICES ASSUME NEW x \in Inum PROVE Due(x)' <= dinode'[x].nlink
  BY DEF LinkInv
<1>5. CASE x = i
  <2>1. Cardinality(Names(i)') <= 1
    <3>1. Names(i)' \subseteq {} \union {<<d, k>>}
      BY <1>2
    <3> QED BY <3>1, CardBounds, FS_EmptySet
  <2>2. Cardinality(Subs(i)') = 0 /\ Cardinality(Pending(i)') = 0
    <3>1. Subs(i)' = {} /\ Pending(i)' = {}
      BY <1>1, <1>2
    <3> QED BY <3>1, FS_EmptySet
  <2> QED BY <1>1, <1>5, <2>1, <2>2, DueFiniteNext DEF Base
<1>6. CASE x = d
  <2>1. /\ Cardinality(Names(x)') <= Cardinality(Names(x))
        /\ Cardinality(Pending(x)') <= Cardinality(Pending(x))
    <3>1. Names(x)' \subseteq Names(x) /\ Pending(x)' \subseteq Pending(x)
      BY <1>1, <1>2, <1>6
    <3> QED BY <3>1, DueFinite, CardBounds
  <2>2. Cardinality(Subs(x)') <= Cardinality(Subs(x)) + (IF b = 0 THEN 0 ELSE 1)
    <3>1. CASE t = "dir"
      <4>1. Subs(x)' \subseteq Subs(x) \union {i}
        BY <1>2, <1>3, <1>6, <3>1
      <4> QED BY <1>3, <3>1, <4>1, DueFinite, CardBounds
    <3>2. CASE t # "dir"
      <4>1. Subs(x)' \subseteq Subs(x)
        BY <1>2, <1>3, <1>6, <3>2
      <4>2. Cardinality(Subs(x)') <= Cardinality(Subs(x)) /\ Cardinality(Subs(x)) \in Nat
        BY <4>1, DueFinite, CardBounds
      <4> QED BY <1>3, <3>2, <4>2
    <3> QED BY <3>1, <3>2
  <2>3. Due(x) <= dinode[x].nlink
    BY <1>4 DEF LinkInv
  <2> QED BY <1>1, <1>4, <1>6, <2>1, <2>2, <2>3, DueFinite, DueFiniteNext DEF Due, Base
<1>7. CASE x # i /\ x # d
  <2>1. Subs(x)' \subseteq Subs(x)
    <3>1. CASE x \in Dirs
      BY <1>2, <1>7, <3>1
    <3>2. CASE x \notin Dirs
      BY <1>2, <1>7, <3>2
    <3> QED BY <3>1, <3>2
  <2>2. Due(x)' \in Nat /\ Due(x) \in Nat /\ Due(x)' <= Due(x)
    BY <1>2, <1>7, <2>1, DueLess
  <2>3. Due(x) <= dinode[x].nlink /\ dinode'[x] = dinode[x]
    BY <1>1, <1>4, <1>7 DEF LinkInv
  <2> QED BY <1>4, <2>2, <2>3
<1> QED BY <1>5, <1>6, <1>7

NewMade(p, i, d) ==
  /\ \E b, k : Makes(i, d, Type(loc[p].op), b, k, Head(loc[p].path))
  /\ core' = [x \in Inum |-> IF x \in {i, d} THEN dinode'[x] ELSE core[x]]
  /\ valid' = valid \union {i, d}
  /\ holder[i] = NoProc /\ holder' = [holder EXCEPT ![i] = p]
  /\ ref' = [ref EXCEPT ![i] = @ + 1]
  /\ Put(p, [loc[p] EXCEPT !.dp = 0, !.ip = i], d, "created")
  /\ UNCHANGED <<ofile, panic>>

\* What create() does when the name is not there and there is room.
LEMMA CreateNewMakes ==
  ASSUME IInv, NEW p \in Proc, NEW d, d = loc[p].dp, pc[p] = "create",
         Lookup(d, Head(loc[p].path)) = 0, ~NoInode, loc[p].op = "mkdir" => ~NoBlock,
         CreateNew(p, d), NEW i, i = Ialloc
  PROVE  NewMade(p, i, d)
<1>1. /\ At(p) = "create" /\ Place(p) /\ TypeInv /\ loc[p] \in Local
  BY Parts, Fields DEF At
<1>2. /\ d \in Inum /\ dinode[d].type = "dir" /\ loc[p].path # <<>> /\ loc[p].op \in Maker
      /\ Loaded(d) = dinode[d]
  BY <1>1, Fields, Parts DEF Place
<1>3. PICK name, op, t : name = Head(loc[p].path) /\ op = loc[p].op /\ t = Type(op)
  OBVIOUS
<1>4. name \in Name /\ t \in {"dir", "file", "sym"} /\ (t = "dir" <=> op = "mkdir")
  BY <1>1, <1>2, <1>3 DEF Local, Maker, Type
<1>5. i \in Inum /\ dinode[i].type = "free"
  <2> DEFINE S == {x \in Inum : dinode[x].type = "free"}
  <2>1. S # {} /\ S \subseteq Nat
    BY Numbers DEF NoInode
  <2>2. Min(S) \in S
    <3> HIDE DEF S
    <3> QED BY <2>1, MinIn
  <2> QED BY <2>2 DEF Ialloc
<1>6. PICK b : b = IF op = "mkdir" THEN Balloc ELSE 0
  OBVIOUS
<1>7. b \in Block \union {0} /\ b \notin bitmap /\ (b # 0 <=> t = "dir")
  <2>1. CASE op = "mkdir"
    BY <1>3, <1>4, <1>6, <2>1, BlockFree
  <2>2. CASE op # "mkdir"
    BY <1>1, <1>4, <1>6, <2>2, Numbers DEF TypeInv
  <2> QED BY <2>1, <2>2
<1>8. PICK n : n = IF b = 0 THEN 0 ELSE 1
  OBVIOUS
<1>9. PICK k : k = Min({j \in Slot : block[dinode[d].addr].slot[j].inum = 0})
  OBVIOUS
<1>10. \A j \in Slot : LET e == block[dinode[d].addr].slot[j]
                       IN  e.inum = 0 \/ e.name # name
  BY <1>2, <1>3, LookupLinked
<1>11. k \in Slot /\ block[dinode[d].addr].slot[k].inum = 0
  BY <1>2, <1>4, <1>9, <1>10, HoleLeft
<1> DEFINE new == [x \in {i, d} |->
                      IF x = i THEN [type |-> t, nlink |-> 1, addr |-> b, size |-> n]
                      ELSE [dinode[d] EXCEPT !.nlink = @ + n]]
<1>12. /\ Update(new) /\ bitmap' = bitmap \union ({b} \ {0})
       /\ block' = [c \in Block |-> IF c = b THEN [Zeroed EXCEPT !.self = i, !.up = d]
                                    ELSE Linked(d, name, i)[c]]
       /\ holder[i] = NoProc /\ holder' = [holder EXCEPT ![i] = p]
       /\ ref' = [ref EXCEPT ![i] = @ + 1]
       /\ Put(p, [loc[p] EXCEPT !.dp = 0, !.ip = i], d, "created")
       /\ UNCHANGED <<ofile, panic>>
  BY <1>2, <1>3, <1>6, <1>8 DEF CreateNew, Free, Get
<1>13. i # d
  BY <1>2, <1>5
<1>14. /\ DOMAIN new = {i, d}
       /\ new[i] = [type |-> t, nlink |-> 1, addr |-> b, size |-> n]
       /\ new[d] = [dinode[d] EXCEPT !.nlink = @ + n]
  BY <1>13
<1> HIDE DEF new
<1>15. /\ dinode' = [x \in Inum |-> IF x \in {i, d} THEN new[x] ELSE dinode[x]]
       /\ core' = [x \in Inum |-> IF x \in {i, d} THEN new[x] ELSE core[x]]
       /\ valid' = valid \union {i, d}
  BY <1>12, <1>14 DEF Update
<1>16. core' = [x \in Inum |-> IF x \in {i, d} THEN dinode'[x] ELSE core[x]]
  <2>1. \A x \in Inum : x \in {i, d} => dinode'[x] = new[x]
    BY <1>15
  <2> QED BY <1>15, <2>1
<1>17. dinode' = MadeDinode(i, d, t, b)
  <2>1. n = Bit(b # 0)
    BY <1>8 DEF Bit
  <2>2. MadeDinode(i, d, t, b) = [x \in Inum |-> IF x = i THEN new[i]
                                    ELSE IF x = d THEN new[d] ELSE dinode[x]]
    BY <1>14, <2>1 DEF MadeDinode, MadeInode
  <2>3. \A x \in Inum : (IF x \in {i, d} THEN new[x] ELSE dinode[x]) =
                        (IF x = i THEN new[i] ELSE IF x = d THEN new[d] ELSE dinode[x])
    OBVIOUS
  <2> QED BY <1>15, <2>2, <2>3
<1>18. block' = MadeBlock(i, d, b, k, name)
  <2>1. Linked(d, name, i) = [block EXCEPT ![dinode[d].addr].slot[k] = MadeEntry(name, i)]
    <3>1. Slots(d) = block[dinode[d].addr].slot
      BY <1>2 DEF Slots
    <3>2. Linked(d, name, i) = Written(d, k, MadeEntry(name, i))
      BY <1>9, <3>1 DEF Linked, MadeEntry
    <3> QED BY <1>2, <3>2 DEF Written
  <2> QED BY <1>12, <2>1 DEF MadeBlock
<1>19. Makes(i, d, t, b, k, name)
  BY <1>2, <1>4, <1>5, <1>7, <1>10, <1>11, <1>12, <1>17, <1>18 DEF Makes, Alive
<1> QED BY <1>3, <1>12, <1>15, <1>16, <1>19 DEF NewMade

LEMMA CreateNewStep ==
  ASSUME IInv, NEW p \in Proc, NEW d, d = loc[p].dp, pc[p] = "create", holder[d] = NoProc,
         Lookup(d, Head(loc[p].path)) = 0, ~NoInode, loc[p].op = "mkdir" => ~NoBlock,
         CreateNew(p, d)
  PROVE  IInv'
<1> DEFINE l == loc[p]
<1>1. /\ At(p) = "create" /\ Place(p) /\ Held(p) /\ TypeInv /\ CacheInv
      /\ CallInv /\ DiskInv /\ DirInv /\ LinkInv /\ LocksMatch /\ RefInv /\ l \in Local
  BY Parts, Fields DEF At, IInv
<1>2. /\ d \in Inum /\ d # 0 /\ dinode[d].type = "dir" /\ Alive(d)
      /\ l.ip = 0 /\ l.old = 0 /\ l.put = 0 /\ l.op \in Maker
  BY <1>1, Fields, Numbers DEF Place, PutPlace, Alive
<1>3. PICK i : i = Ialloc
  OBVIOUS
<1>4. /\ \E b, k : Makes(i, d, Type(l.op), b, k, Head(l.path))
      /\ core' = [x \in Inum |-> IF x \in {i, d} THEN dinode'[x] ELSE core[x]]
      /\ valid' = valid \union {i, d}
      /\ holder[i] = NoProc /\ holder' = [holder EXCEPT ![i] = p]
      /\ ref' = [ref EXCEPT ![i] = @ + 1]
      /\ Put(p, [l EXCEPT !.dp = 0, !.ip = i], d, "created")
      /\ UNCHANGED <<ofile, panic>>
  <2>1. NewMade(p, i, d)
    BY <1>3, CreateNewMakes, SMTT(30)
  <2> QED BY <2>1 DEF NewMade
<1>5. PICK b, k, name, t : /\ Makes(i, d, t, b, k, name) /\ t = Type(l.op)
  BY <1>4
<1>6. /\ i # d /\ i # RootInum /\ i \in Inum /\ i # 0
      /\ dinode' \in [Inum -> Inode] /\ block' \in [Block -> Content]
      /\ dinode'[i] \in Inode /\ dinode'[i].type = t /\ dinode'[i].addr = b
      /\ \A x \in Inum : x # i => /\ dinode'[x].type = dinode[x].type
                                  /\ dinode'[x].addr = dinode[x].addr
      /\ \A x \in Inum : x # i /\ x # d => dinode'[x] = dinode[x]
  <2>1. InodesMade(i, d, t, b)
    BY <1>5, MakesInodes
  <2>2. i # d /\ i # RootInum /\ i \in Inum
    BY <2>1 DEF InodesMade
  <2>3. i # 0
    BY <2>2, Numbers
  <2> QED BY <2>1, <2>3 DEF InodesMade
<1>7. /\ ~Alive(i) /\ b \in Block \union {0} /\ (b # 0 <=> t = "dir") /\ t # "free"
      /\ bitmap' = bitmap \union ({b} \ {0})
  BY <1>5 DEF Makes
<1>8. DiskInv' /\ DirInv'
  BY <1>5, MadeDisk, MadeDirs, SMTT(30)
<1>9. \A c \in Dirs \ {d} : block'[dinode'[c].addr] = block[dinode[c].addr]
  BY <1>5, MadeEntries, SMTT(30)
<1>10. /\ pc' = [pc EXCEPT ![p] = "put"]
       /\ loc' = [loc EXCEPT ![p] = [[l EXCEPT !.dp = 0, !.ip = i]
                                     EXCEPT !.put = d, !.after = "created"]]
  BY <1>4 DEF Put, Goto
<1>11. /\ pc'[p] = "put" /\ loc'[p].op = l.op /\ loc'[p].arg = l.arg /\ loc'[p].ip = i
       /\ loc'[p].dp = 0 /\ loc'[p].old = 0 /\ loc'[p].put = d /\ loc'[p].after = "created"
  BY <1>1, <1>2, <1>10 DEF TypeInv, Local
<1>12. At(p)' = "created"
  BY <1>11 DEF At
<1>13. Place(p)' /\ Locked(p)' = {i} /\ Fresh(p)' \in {0, i} /\ (Fresh(p)' # 0 => t = "sym")
  <2>1. Place(p)'
    BY <1>1, <1>2, <1>6, <1>11, <1>12 DEF Place, PutPlace
  <2>2. Locked(p)' = {i}
    BY <1>6, <1>11, <1>12 DEF Locked
  <2>3. Fresh(p)' \in {0, i} /\ (Fresh(p)' # 0 => t = "sym")
    BY <1>5, <1>11, <1>12 DEF Fresh, Type
  <2> QED BY <2>1, <2>2, <2>3
<1>14. \A x \in Inum : Alive(x) => dinode'[x].type # "free" /\ dinode'[x].type = dinode[x].type
  BY <1>6, <1>7 DEF Alive
<1>15. Held(p)'
  <2>1. HeldRefs(p)'
    BY <1>2, <1>4, <1>6, <1>7, <1>11, <1>14, Fields DEF HeldRefs, Alive
  <2>2. HeldMade(p)'
    BY <1>5, <1>6, <1>7, <1>11, <1>13 DEF HeldMade
  <2> QED BY <1>11, <1>12, <2>1, <2>2 DEF Held, HeldFree, HeldName
<1>16. dinode'[d] \in Inode /\ core' \in [Inum -> Inode] /\ valid' \subseteq Inum
  <2>1. dinode'[d] \in Inode
    BY <1>2, <1>6
  <2> QED BY <1>1, <1>2, <1>4, <1>6, <2>1 DEF TypeInv
<1>17. TypeInv' /\ Moves(p)
  <2>1. [[l EXCEPT !.dp = 0, !.ip = i] EXCEPT !.put = d, !.after = "created"] \in Local
    BY <1>1, <1>2, <1>6 DEF Local, Maybe, Label
  <2>2. bitmap' \subseteq Block
    BY <1>1, <1>7 DEF TypeInv
  <2>3. /\ ref' \in [Inum -> Nat] /\ holder' \in [Inum -> Proc \union {NoProc}]
        /\ ofile' \in [Proc -> Maybe]
    BY <1>1, <1>4, <1>6 DEF TypeInv
  <2>4. /\ pc' \in [Proc -> Label] /\ loc' \in [Proc -> Local]
        /\ \A q \in Proc \ {p} : pc'[q] = pc[q] /\ loc'[q] = loc[q]
    <3> HIDE DEF l
    <3> QED BY <1>1, <1>10, <2>1 DEF TypeInv, Label, PutPlace
  <2> QED BY <1>4, <1>6, <1>16, <2>2, <2>3, <2>4 DEF TypeInv, Moves
<1>18. ASSUME NEW x \in Inum
       PROVE  /\ ref'[x] - Own(p, x)' = ref[x] - Own(p, x)
              /\ p \notin Pending(x)'
              /\ holder'[x] = IF x = i THEN p ELSE holder[x]
              /\ x # i => ref'[x] = ref[x]
  <2>1. ref'[x] = ref[x] + Bit(i = x) /\ holder'[x] = IF x = i THEN p ELSE holder[x]
    BY <1>1, <1>4 DEF TypeInv, Bit
  <2>2. Own(p, x)' = Own(p, x) + Bit(i = x)
    <3>1. /\ loc[p].ip = 0 /\ loc[p].dp = d /\ loc[p].old = 0 /\ loc[p].put = 0
          /\ ofile'[p] = ofile[p] /\ x # 0
      BY <1>2, <1>4, Numbers
    <3> HIDE DEF l
    <3> QED BY <1>11, <3>1 DEF Own, Bit
  <2>3. p \notin Pending(x)'
    BY <1>11, <1>12, Numbers DEF Pending
  <2> QED BY <2>1, <2>2, <2>3, Fields DEF Bit
<1>19. LocksMatch' /\ RefInv'
  <2>1. Locked(p) = {}
    BY <1>1 DEF Locked
  <2>2. \A x \in Inum : Slack(x) > 0 => dinode'[x].type = dinode[x].type
    <3>1. ~(Slack(i) > 0)
      BY <1>1, <1>6, <1>7 DEF RefInv, Lost, Dirs, Allocated, Alive
    <3> QED BY <1>6, <3>1
  <2> QED BY <1>1, <1>4, <1>13, <1>17, <1>18, <2>1, <2>2, LocksAndRefs
<1>20. PlaceInv' /\ HeldInv' /\ FreshInv' /\ LoadedInv'
  <2>1. \A q \in Proc \ {p} : Fresh(q) # 0 => dinode'[Fresh(q)].addr = 0
    <3>1. \A q \in Proc \ {p} : Fresh(q) # 0 => /\ Fresh(q) \in Inum /\ Alive(Fresh(q))
                                                /\ dinode[Fresh(q)].addr = 0
      BY Parts, Fields DEF Held, HeldMade, Fresh, Place, Maybe, Alive
    <3> QED BY <1>6, <1>7, <3>1
  <2>2. \A q \in Proc \ {p} : \A x \in Locked(q) : x # d /\ x # i /\ x \in Inum
    BY <1>2, <1>4, <1>6, NotOthers DEF Locked
  <2>3. \A q \in Proc \ {p} : \A x \in Locked(q) :
           /\ dinode'[x] = dinode[x]
           /\ dinode[x].type = "dir" => block'[dinode[x].addr] = block[dinode[x].addr]
    <3>1. ASSUME NEW x \in Inum, x # d, x # i
          PROVE  /\ dinode'[x] = dinode[x]
                 /\ dinode[x].type = "dir" => block'[dinode[x].addr] = block[dinode[x].addr]
      <4>1. dinode'[x] = dinode[x]
        BY <1>6, <3>1
      <4> QED BY <1>9, <3>1, <4>1, DirBlocks
    <3> QED BY <2>2, <3>1
  <2>4. \A q \in Proc \ {p} : pc[q] = "put_free" => ref'[loc[q].put] = ref[loc[q].put]
    <3>1. \A q \in Proc \ {p} : pc[q] = "put_free" => Alive(loc[q].put) /\ loc[q].put \in Inum
      BY Parts, Fields DEF Held, HeldRefs, Place, PutPlace, Maybe
    <3> QED BY <1>7, <1>18, <3>1
  <2>5. Locked(p)' \subseteq valid'
    BY <1>4, <1>13
  <2>6. \A q \in Proc \ {p}, x \in Inum : x \in valid \ valid' => Own(q, x) = 0
    BY <1>4
  <2>7. \A q \in Proc \ {p}, x \in Inum :
             Alive(x) /\ dinode'[x].type # dinode[x].type => Own(q, x) = 0
    BY <1>14
  <2>8. Fresh(p)' \in {0, Fresh(p)} \/ (Fresh(p)' \in Inum /\ ~Alive(Fresh(p)'))
    <3>1. PICK f : f = Fresh(p)'
      OBVIOUS
    <3>2. f \in {0, Fresh(p)} \/ (f \in Inum /\ ~Alive(f))
      BY <1>6, <1>7, <1>13, <3>1
    <3> QED BY <3>1, <3>2
  <2> QED BY <1>1, <1>13, <1>15, <1>17, <2>1, <2>3, <2>4, <2>5, <2>6, <2>7, <2>8, CallsKept
<1>21. CacheInv'
  <2> SUFFICES ASSUME NEW x \in valid' PROVE core'[x] = dinode'[x]
    BY DEF CacheInv
  <2>1. x \in Inum /\ core'[x] = IF x \in {i, d} THEN dinode'[x] ELSE core[x]
    BY <1>4, <1>16
  <2>2. x \notin {i, d} => core[x] = dinode[x] /\ dinode'[x] = dinode[x]
    BY <1>1, <1>4, <1>6, <2>1 DEF CacheInv
  <2> QED BY <2>1, <2>2
<1>22. LinkInv'
  <2>1. \A x \in Inum : Pending(x)' \subseteq Pending(x)
    BY <1>17, <1>18 DEF Pending, Moves, At
  <2> QED BY <1>5, <2>1, MadeLinks, SMTT(30)
<1>23. NoPanic'
  BY <1>4, Parts DEF NoPanic
<1> QED BY <1>8, <1>17, <1>19, <1>20, <1>21, <1>22, <1>23 DEF IInv, CallInv

LEMMA CreateStep ==
  ASSUME IInv, NEW p \in Proc, Create(p)
  PROVE  IInv'
<1> DEFINE l == loc[p]
<1>1. /\ pc[p] = "create" /\ At(p) = "create" /\ Place(p) /\ Held(p) /\ TypeInv /\ CacheInv
      /\ l \in Local
  BY Parts, Fields DEF Create, Runs, At
<1>2. PICK d, x : d = loc[p].dp /\ x = Lookup(d, Head(loc[p].path))
  OBVIOUS
<1>3. /\ d \in Inum /\ d # 0 /\ dinode[d].type = "dir" /\ Alive(d) /\ Typed(d)
      /\ l.ip = 0 /\ l.old = 0 /\ l.put = 0 /\ l.op \in Maker
  BY <1>1, <1>2, Fields, Numbers DEF Place, PutPlace, Alive
<1>4. /\ holder[d] = NoProc
      /\ IF x # 0 THEN /\ Load({d}) /\ ref' = [ref EXCEPT ![x] = @ + 1]
                       /\ Put(p, [loc[p] EXCEPT !.dp = 0, !.ip = x], d, "exists")
                       /\ UNCHANGED <<disk, holder, ofile, panic>>
         ELSE IF NoInode THEN Panic("ialloc: no inodes")
         ELSE IF loc[p].op = "mkdir" /\ NoBlock THEN Panic("balloc: out of blocks")
         ELSE CreateNew(p, d)
  <2> HIDE DEF l
  <2> QED BY <1>2, <1>3 DEF Create, Ilock, Free, Get
<1>5. CASE x # 0
  <2>1. x \in Inum /\ dinode[x].nlink > 0 /\ Alive(x)
    BY <1>2, <1>3, <1>5, LookupLinked
  <2>2. /\ pc' = [pc EXCEPT ![p] = "put"] /\ Load({d}) /\ ref' = [ref EXCEPT ![x] = @ + 1]
        /\ loc' = [loc EXCEPT ![p] = [[l EXCEPT !.dp = 0, !.ip = x]
                                      EXCEPT !.put = d, !.after = "exists"]]
        /\ UNCHANGED <<disk, dinode, bitmap, block, holder, ofile, panic>>
    BY <1>4, <1>5 DEF Put, Goto, disk
  <2>3. /\ pc'[p] = "put" /\ loc'[p].op = l.op /\ loc'[p].arg = l.arg /\ loc'[p].ip = x
        /\ loc'[p].dp = 0 /\ loc'[p].old = 0 /\ loc'[p].put = d /\ loc'[p].after = "exists"
    BY <1>1, <1>3, <2>2 DEF TypeInv, Local
  <2>4. At(p)' = "exists"
    BY <2>3 DEF At
  <2>5. Place(p)' /\ Locked(p)' = {} /\ Locked(p) = {} /\ Fresh(p)' = 0
    BY <1>1, <1>3, <1>5, <2>3, <2>4 DEF Place, PutPlace, Locked, Fresh
  <2>6. Held(p)'
    <3>1. HeldRefs(p)'
      BY <1>3, <2>1, <2>2, <2>3, Fields DEF HeldRefs, Alive
    <3> QED BY <2>3, <2>4, <2>5, <3>1 DEF Held, HeldMade, HeldFree, HeldName
  <2>7. /\ core' \in [Inum -> Inode] /\ valid' \subseteq Inum /\ CacheInv'
        /\ valid' = valid \union {d}
    BY <1>1, <1>3, <2>2, LoadKeeps
  <2>8. TypeInv' /\ Moves(p)
    <3>1. [[l EXCEPT !.dp = 0, !.ip = x] EXCEPT !.put = d, !.after = "exists"] \in Local
      BY <1>1, <1>3, <2>1 DEF Local, Maybe, Label
    <3>2. /\ pc' \in [Proc -> Label] /\ loc' \in [Proc -> Local]
          /\ \A q \in Proc \ {p} : pc'[q] = pc[q] /\ loc'[q] = loc[q]
      <4> HIDE DEF l
      <4> QED BY <1>1, <2>2, <3>1 DEF TypeInv, Label, PutPlace
    <3>3. ref' \in [Inum -> Nat]
      BY <1>1, <2>1, <2>2 DEF TypeInv
    <3> QED BY <1>1, <2>2, <2>7, <3>2, <3>3 DEF TypeInv, Moves
  <2>9. ASSUME NEW y \in Inum
        PROVE  /\ ref'[y] - Own(p, y)' = ref[y] - Own(p, y)
               /\ p \notin Pending(y)'
               /\ ref'[y] # ref[y] => dinode[y].nlink > 0
    <3>1. ref'[y] = ref[y] + Bit(x = y)
      BY <1>1, <2>2 DEF TypeInv, Bit
    <3>2. Own(p, y)' = Own(p, y) + Bit(x = y)
      <4>1. /\ loc[p].ip = 0 /\ loc[p].dp = d /\ loc[p].old = 0 /\ loc[p].put = 0
            /\ ofile'[p] = ofile[p] /\ y # 0
        BY <1>2, <1>3, <2>2, Numbers
      <4> HIDE DEF l
      <4> QED BY <2>3, <4>1 DEF Own, Bit
    <3>3. p \notin Pending(y)'
      BY <2>3, <2>4, Numbers DEF Pending
    <3> QED BY <2>1, <3>1, <3>2, <3>3, Fields DEF Bit
  <2> QED BY <2>2, <2>5, <2>6, <2>7, <2>8, <2>9, QuietStep
<1>6. CASE x = 0 /\ NoInode
  <2>1. Panic("ialloc: no inodes")
    BY <1>4, <1>6
  <2> QED BY <2>1, PanicStep
<1>7. CASE x = 0 /\ ~NoInode /\ loc[p].op = "mkdir" /\ NoBlock
  <2>1. Panic("balloc: out of blocks")
    BY <1>4, <1>7
  <2> QED BY <2>1, PanicStep
<1>8. CASE x = 0 /\ ~NoInode /\ ~(loc[p].op = "mkdir" /\ NoBlock)
  <2>1. CreateNew(p, d)
    BY <1>4, <1>8
  <2>2. /\ d = loc[p].dp /\ pc[p] = "create" /\ holder[d] = NoProc
        /\ Lookup(d, Head(loc[p].path)) = 0 /\ ~NoInode /\ (loc[p].op = "mkdir" => ~NoBlock)
    BY <1>1, <1>2, <1>4, <1>8
  <2> HIDE DEF l
  <2> QED BY <2>1, <2>2, CreateNewStep, SMTT(30)
<1> QED BY <1>5, <1>6, <1>7, <1>8

(***************************************************************************)
(* The invariant is inductive.                                             *)
(***************************************************************************)

\* Nothing is in memory yet, and no call is made.
Booted == /\ core = [i \in Inum |-> FreeInode] /\ valid = {}
          /\ ref = [i \in Inum |-> 0] /\ holder = [i \in Inum |-> NoProc]
          /\ ofile = [p \in Proc |-> 0]
          /\ pc = [p \in Proc |-> "user"] /\ loc = [p \in Proc |-> Idle]

LEMMA BootedCalls ==
  Booted => /\ core \in [Inum -> Inode] /\ valid \subseteq Inum /\ ref \in [Inum -> Nat]
            /\ holder \in [Inum -> Proc \union {NoProc}] /\ ofile \in [Proc -> Maybe]
            /\ pc \in [Proc -> Label] /\ loc \in [Proc -> Local]
            /\ CallInv /\ \A x \in Inum : Pending(x) = {}
<1> SUFFICES ASSUME Booted
             PROVE  /\ core \in [Inum -> Inode] /\ valid \subseteq Inum /\ ref \in [Inum -> Nat]
                    /\ holder \in [Inum -> Proc \union {NoProc}] /\ ofile \in [Proc -> Maybe]
                    /\ pc \in [Proc -> Label] /\ loc \in [Proc -> Local]
                    /\ CallInv /\ \A x \in Inum : Pending(x) = {}
  OBVIOUS
<1>1. /\ core = [i \in Inum |-> FreeInode] /\ valid = {}
      /\ ref = [i \in Inum |-> 0] /\ holder = [i \in Inum |-> NoProc]
      /\ ofile = [p \in Proc |-> 0]
      /\ pc = [p \in Proc |-> "user"] /\ loc = [p \in Proc |-> Idle]
  BY DEF Booted
<1>2. core \in [Inum -> Inode]
  <2>1. FreeInode \in Inode
    BY DEF FreeInode, Inode
  <2> QED BY <1>1, <2>1
<1>3. /\ valid \subseteq Inum /\ ref \in [Inum -> Nat]
      /\ holder \in [Inum -> Proc \union {NoProc}] /\ ofile \in [Proc -> Maybe]
      /\ pc \in [Proc -> Label]
  BY <1>1 DEF Label, Maybe
<1>4. loc \in [Proc -> Local]
  BY <1>1, IdleTyped
<1>5. ASSUME NEW p \in Proc
      PROVE  Place(p) /\ Held(p) /\ Fresh(p) = 0 /\ Locked(p) = {}
  <2>1. pc[p] = "user" /\ loc[p] = Idle /\ ofile[p] = 0 /\ At(p) = "user"
    BY <1>1 DEF At
  <2>2. Place(p)
    BY <2>1 DEF Place, PutPlace, Idle
  <2>3. Locked(p) = {} /\ Fresh(p) = 0
    BY <2>1 DEF Locked, Fresh
  <2>4. Held(p)
    BY <2>1, <2>3 DEF Held, HeldRefs, HeldMade, HeldFree, HeldName, Idle
  <2> QED BY <2>2, <2>3, <2>4
<1>6. ASSUME NEW x \in Inum
      PROVE  Slack(x) = 0 /\ holder[x] = NoProc
  <2>1. \A p \in Proc : ofile[p] # x /\ loc[p].ip # x /\ loc[p].dp # x /\ loc[p].old # x
                        /\ loc[p].put # x
    BY <1>1, Numbers DEF Idle
  <2>2. Holds(x) = {}
    BY <2>1 DEF Holds, Refers
  <2>3. Cardinality(Holds(x)) = 0
    BY <2>2, FS_EmptySet
  <2> QED BY <1>1, <2>3 DEF Slack
<1>7. CallInv
  <2>1. PlaceInv /\ HeldInv /\ FreshInv /\ LoadedInv /\ CacheInv
    BY <1>1, <1>5 DEF PlaceInv, HeldInv, FreshInv, LoadedInv, CacheInv
  <2>2. LocksMatch /\ RefInv
    BY <1>5, <1>6, ProcAssumption DEF LocksMatch, RefInv
  <2> QED BY <2>1, <2>2 DEF CallInv
<1>8. \A x \in Inum : Pending(x) = {}
  BY <1>1, Numbers DEF Pending, Idle
<1> QED BY <1>2, <1>3, <1>4, <1>7, <1>8

\* The machine stops and starts: the image on disk is what it was.
LEMMA CrashStep == IInv /\ Crash => IInv'
<1> SUFFICES ASSUME IInv, Crash PROVE IInv'
  OBVIOUS
<1>1. Booted' => /\ core' \in [Inum -> Inode] /\ valid' \subseteq Inum /\ ref' \in [Inum -> Nat]
                 /\ holder' \in [Inum -> Proc \union {NoProc}] /\ ofile' \in [Proc -> Maybe]
                 /\ pc' \in [Proc -> Label] /\ loc' \in [Proc -> Local]
                 /\ CallInv' /\ \A x \in Inum : Pending(x)' = {}
  <2>1. (Booted => /\ core \in [Inum -> Inode] /\ valid \subseteq Inum /\ ref \in [Inum -> Nat]
                   /\ holder \in [Inum -> Proc \union {NoProc}] /\ ofile \in [Proc -> Maybe]
                   /\ pc \in [Proc -> Label] /\ loc \in [Proc -> Local]
                   /\ CallInv /\ \A x \in Inum : Pending(x) = {})'
    BY BootedCalls, PTL
  <2> QED BY <2>1
<1>2. Booted' /\ UNCHANGED <<dinode, bitmap, block, panic>> /\ UNCHANGED disk
  BY DEF Crash, Booted, disk
<1>3. TypeInv'
  BY <1>1, <1>2, Parts DEF TypeInv
<1>4. DiskInv' /\ DirInv' /\ LinkInv'
  <2>1. \A x \in Inum : Pending(x)' \subseteq Pending(x)
    BY <1>1, <1>2
  <2> QED BY <1>2, <1>3, <2>1, Parts, DiskKept
<1>5. NoPanic'
  BY <1>2, Parts DEF NoPanic
<1> QED BY <1>1, <1>2, <1>3, <1>4, <1>5 DEF IInv

LEMMA InitStep == Init => IInv
<1> SUFFICES ASSUME Init PROVE IInv
  OBVIOUS
<1>1. /\ dinode = [i \in Inum |-> IF i = RootInum THEN RootInode ELSE FreeInode]
      /\ bitmap = {RootInode.addr}
      /\ block = [b \in Block |-> IF b = RootInode.addr THEN RootBlock ELSE Zeroed]
      /\ panic = "none" /\ Booted
  BY DEF Init, Booted
<1>2. RootInode \in Inode /\ FreeInode \in Inode
  BY Numbers DEF RootInode, FreeInode, Inode
<1>3. /\ Zeroed \in Content /\ RootBlock \in Content
      /\ RootBlock.self = RootInum /\ RootBlock.up = RootInum
      /\ \A k \in Slot : Zeroed.slot[k].inum = 0 /\ RootBlock.slot[k].inum = 0
  <2>1. Hole \in Entry /\ Hole.inum = 0 /\ RootInum \in Maybe /\ 0 \in Maybe
    BY Numbers DEF Hole, Entry, Maybe
  <2>2. Zeroed \in Content /\ \A k \in Slot : Zeroed.slot[k] = Hole
    BY <2>1 DEF Zeroed, Content
  <2>3. /\ RootBlock \in Content /\ RootBlock.self = RootInum /\ RootBlock.up = RootInum
        /\ RootBlock.slot = Zeroed.slot
    BY <2>1, <2>2 DEF RootBlock, Content
  <2> QED BY <2>1, <2>2, <2>3
<1>4. TypeInv
  <2>1. dinode \in [Inum -> Inode] /\ block \in [Block -> Content]
    BY <1>1, <1>2, <1>3
  <2>2. bitmap \subseteq Block
    BY <1>1, Numbers
  <2> QED BY <1>1, <2>1, <2>2, BootedCalls DEF TypeInv
<1>5. CallInv
  BY <1>1, BootedCalls
<1>6. /\ dinode[RootInum] = RootInode /\ block[RootInode.addr] = RootBlock
      /\ \A i \in Inum : i # RootInum => dinode[i] = FreeInode
  BY <1>1, Numbers
<1>7. /\ RootInode.type = "dir" /\ RootInode.nlink = 1 /\ RootInode.size = 1
      /\ RootInode.addr # 0 /\ RootInode.addr \in Block
      /\ FreeInode.type = "free" /\ FreeInode.nlink = 0 /\ FreeInode.addr = 0
      /\ FreeInode.size = 0
  BY Numbers DEF RootInode, FreeInode
<1>8. Dirs = {RootInum}
  BY <1>6, <1>7, Numbers DEF Dirs, Allocated
<1>9. DiskInv
  <2>1. bitmap = {dinode[i].addr : i \in Inum} \ {0}
    <3>1. ASSUME NEW a PROVE a \in bitmap <=> a \in {dinode[i].addr : i \in Inum} \ {0}
      BY <1>1, <1>6, <1>7, Numbers
    <3> QED BY <3>1
  <2>2. \A i \in Inum : ~Alive(i) => dinode[i].nlink = 0 /\ dinode[i].addr = 0
    BY <1>6, <1>7 DEF Alive
  <2>3. \A i \in Inum : dinode[i].size = IF dinode[i].addr = 0 THEN 0 ELSE 1
    BY <1>6, <1>7
  <2>4. \A i \in Inum : dinode[i].type = "dir" =>
            dinode[i].addr # 0 /\ block[dinode[i].addr].self = i
    BY <1>3, <1>6, <1>7
  <2>5. \A i, j \in Inum : dinode[i].addr = dinode[j].addr /\ dinode[i].addr # 0 => i = j
    BY <1>6, <1>7
  <2>6. \A i \in Inum : dinode[i].type = "sym" /\ dinode[i].addr # 0 => Target(i) \in Path
    BY <1>6, <1>7
  <2>7. dinode[RootInum].type = "dir" /\ block[dinode[RootInum].addr].up = RootInum
    BY <1>3, <1>6, <1>7
  <2> QED BY <2>1, <2>2, <2>3, <2>4, <2>5, <2>6, <2>7 DEF DiskInv
<1>10. \A d \in Dirs, k \in Slot : block[dinode[d].addr].slot[k].inum = 0
  BY <1>3, <1>6, <1>8
<1>11. ASSUME NEW x \in Inum PROVE Names(x) = {} /\ Subs(x) = {} /\ Pending(x) = {}
  <2>1. x # 0 /\ \A d \in Dirs : d # 0
    BY <1>8, Numbers
  <2>2. Names(x) = {}
    BY <1>10, <2>1 DEF Names
  <2>3. Subs(x) = {}
    BY <1>10, <2>1 DEF Subs, Subdirs
  <2>4. Pending(x) = {}
    BY <1>1, BootedCalls
  <2> QED BY <2>2, <2>3, <2>4
<1>12. DirInv
  <2>1. Dirs \subseteq Inum
    BY <1>8, Numbers
  <2> QED BY <1>10, <1>11, <2>1, Numbers DEF DirInv
<1>13. LinkInv
  <2> SUFFICES ASSUME NEW x \in Inum PROVE Due(x) <= dinode[x].nlink
    BY DEF LinkInv
  <2>1. Due(x) = Base(x)
    <3>1. Cardinality(Names(x)) = 0 /\ Cardinality(Subs(x)) = 0 /\ Cardinality(Pending(x)) = 0
      BY <1>11, FS_EmptySet
    <3> QED BY <3>1 DEF Due, Base
  <2> QED BY <1>6, <1>7, <2>1 DEF Base
<1> QED BY <1>1, <1>4, <1>5, <1>9, <1>12, <1>13 DEF IInv, NoPanic

LEMMA StepsStep ==
  ASSUME IInv, NEW p \in Proc, Steps(p)
  PROVE  IInv'
BY CloseStep, IputCheckStep, IputFreeStep, IputDropStep, StepStep, OpenLockStep, CreateStep,
   ExistsStep, CreatedStep, WriteLinkStep, UnlinkStep, UnlinkEntryStep, UnlinkBadStep,
   UnlinkDropStep, LinkStep, LinkDirStep, LinkDupStep, LinkDoneStep, LinkBadStep DEF Steps

LEMMA Stutter == IInv /\ UNCHANGED vars => IInv'
<1> SUFFICES ASSUME IInv, UNCHANGED vars PROVE IInv'
  OBVIOUS
<1>1. UNCHANGED <<dinode, bitmap, block, core, valid, ref, holder, ofile, pc, loc, panic>>
  BY DEF vars, disk, cache
<1>2. TypeInv' /\ NoPanic'
  BY <1>1, Parts DEF TypeInv, NoPanic
<1>3. DiskInv'
  BY <1>1, Parts DEF DiskInv, Alive, Target
<1>4. \A x \in Inum : Pending(x)' = Pending(x)
  BY <1>1 DEF Pending, At
<1>5. DirInv' /\ LinkInv'
  BY <1>1, <1>2, <1>4, Parts, DiskKept DEF disk
<1>6. Dirs' = Dirs /\ \A x \in Inum : Holds(x)' = Holds(x)
  BY <1>1 DEF Dirs, Allocated, Holds, Refers
<1>7. \A p \in Proc : Locked(p)' = Locked(p) /\ Fresh(p)' = Fresh(p)
  BY <1>1 DEF Locked, Fresh, At
<1>8. \A p \in Proc, x \in Inum : Lost(x, p)' <=> Lost(x, p)
  BY <1>1, <1>6, <1>7 DEF Lost
<1>9. PlaceInv'
  BY <1>1, Parts DEF PlaceInv, Place, At
<1>10. HeldInv'
  <2> SUFFICES ASSUME NEW p \in Proc PROVE Held(p)'
    BY DEF HeldInv
  <2>1. Held(p) /\ Fresh(p)' = Fresh(p) /\ At(p)' = At(p)
    BY <1>1, <1>7, Parts DEF At
  <2>2. HeldRefs(p)' /\ HeldMade(p)' /\ HeldFree(p)' /\ HeldName(p)'
    BY <1>1, <2>1 DEF Held, HeldRefs, HeldMade, HeldFree, HeldName, Alive
  <2> QED BY <2>2 DEF Held
<1>11. FreshInv' /\ CacheInv' /\ LoadedInv'
  BY <1>1, <1>7, Parts DEF FreshInv, CacheInv, LoadedInv
<1>12. LocksMatch' /\ RefInv'
  <2>1. LocksMatch'
    BY <1>1, <1>7, <1>8, Parts DEF LocksMatch
  <2>2. \A x \in Inum : Slack(x)' = Slack(x)
    BY <1>1, <1>6 DEF Slack
  <2>3. RefInv'
    BY <1>1, <1>8, <2>2, Parts DEF RefInv
  <2> QED BY <2>1, <2>3
<1> QED BY <1>2, <1>3, <1>5, <1>9, <1>10, <1>11, <1>12 DEF IInv, CallInv

LEMMA Inductive == IInv /\ [Next \/ Crash]_vars => IInv'
<1> SUFFICES ASSUME IInv, [Next \/ Crash]_vars PROVE IInv'
  OBVIOUS
<1>1. CASE Next
  <2>1. PICK p \in Proc : Calls(p) \/ Steps(p)
    BY <1>1 DEF Next
  <2> QED BY <2>1, CallStep, StepsStep
<1>2. CASE Crash
  BY <1>2, CrashStep
<1>3. CASE UNCHANGED vars
  BY <1>3, Stutter
<1> QED BY <1>1, <1>2, <1>3

(***************************************************************************)
(* What holds of every behaviour, with and without crashes.                *)
(***************************************************************************)

\* The invariant holds of every state: what each call has locked and refers to
\* (sysfile.c, fs.c), what the cache holds, and what is on the disk.
THEOREM Invariance == CrashSpec => []IInv
<1>1. Init => IInv
  BY InitStep
<1>2. IInv /\ [Next \/ Crash]_vars => IInv'
  BY Inductive
<1> QED BY <1>1, <1>2, PTL DEF CrashSpec

\* A run in which the machine does not stop is one of those in which it may.
LEMMA SpecCrashes == Spec => CrashSpec
<1>1. [Next]_vars => [Next \/ Crash]_vars
  OBVIOUS
<1> QED BY <1>1, PTL DEF Spec, CrashSpec

\* The variables of fs.c and sysfile.c stay in their types: link counts and
\* reference counts never become negative, and inode numbers are valid.
THEOREM Types == CrashSpec => []TypeOK
<1>1. IInv => TypeOK
  <2> SUFFICES ASSUME IInv PROVE TypeOK
    OBVIOUS
  <2>1. TypeInv
    BY Parts
  <2>2. \A b \in Block, k \in Slot : block[b].slot[k] \in Entry
    BY <2>1 DEF TypeInv, Content
  <2>3. \A p \in Proc : {loc[p].ip, loc[p].dp, loc[p].old, loc[p].put} \subseteq Maybe
    BY Fields
  <2> QED BY <2>1, <2>2, <2>3 DEF TypeOK, TypeInv, Inode, Entry, Maybe
<1> QED BY <1>1, Invariance, PTL

\* Whatever calls run together, and after any crash, only a full disk makes the
\* kernel panic: no inode that is in use is freed (fs.c:310), no block is freed
\* twice (fs.c:92), and no entry leads to an inode without links (sysfile.c:211).
THEOREM PanicsOnlyWhenFull == CrashSpec => []NoPanic
<1>1. IInv => NoPanic
  BY DEF IInv
<1> QED BY <1>1, Invariance, PTL

\* An inode counts at least the entries that name it, and a directory its
\* subdirectories; a directory has one name, where its ".." leads
\* (sysfile.c:117-238, 270-275).
THEOREM CountsCoverLinks == CrashSpec => []LinksCounted
<1>1. IInv => LinksCounted
  <2> SUFFICES ASSUME IInv, NEW i \in Inum
               PROVE  /\ Cardinality(Names(i)) <= dinode[i].nlink
                      /\ i \in Dirs =>
                           /\ Cardinality(Names(i)) + Cardinality(Subdirs(i)) <= dinode[i].nlink
                           /\ \A e \in Names(i) : /\ Names(i) = {e}
                                                  /\ block[dinode[i].addr].up = e[1]
    BY DEF LinksCounted
  <2>1. Due(i) <= dinode[i].nlink /\ dinode[i].nlink \in Nat
    BY Parts DEF LinkInv, TypeInv, Inode
  <2>2. Cardinality(Names(i)) + Cardinality(Subs(i)) <= dinode[i].nlink
    BY <2>1, DueFinite DEF Due, Base
  <2>3. Cardinality(Names(i)) <= dinode[i].nlink
    BY <2>1, <2>2, DueFinite
  <2>4. i \in Dirs => Subs(i) = Subdirs(i)
    BY DEF Subs
  <2>5. i \in Dirs => \A e \in Names(i) : /\ Names(i) = {e}
                                          /\ block[dinode[i].addr].up = e[1]
    BY Parts DEF DirInv
  <2> QED BY <2>2, <2>3, <2>4, <2>5
<1> QED BY <1>1, Invariance, PTL

\* Every way out of every call gives back just the locks and the references that
\* the call took, but for what open() loses at a link (sysfile.c:112-345).
THEOREM HoldingsGivenBack == CrashSpec => []HoldingsMatch
<1>1. IInv => HoldingsMatch
  <2> SUFFICES ASSUME IInv PROVE HoldingsMatch
    OBVIOUS
  <2>1. LocksMatch
    BY Parts
  <2>2. RefsCounted
    <3> SUFFICES ASSUME NEW i \in Inum
                 PROVE  /\ ref[i] >= Cardinality(Holds(i))
                        /\ ref[i] > Cardinality(Holds(i)) =>
                             dinode[i].type = "sym" \/ \E p \in Proc : Lost(i, p)
      BY DEF RefsCounted
    <3>1. ref[i] \in Nat /\ Cardinality(Holds(i)) \in Nat
      BY Parts, RefsFinite DEF TypeInv
    <3>2. /\ Slack(i) >= 0
          /\ Slack(i) > 0 => dinode[i].type = "sym" \/ \E p \in Proc : Lost(i, p)
      BY Parts DEF RefInv
    <3> QED BY <3>1, <3>2 DEF Slack
  <2> QED BY <2>1, <2>2 DEF HoldingsMatch
<1> QED BY <1>1, Invariance, PTL

\* At rest, and so after a crash, no block belongs to two inodes, and fscheck.c
\* finds fault with the image only where the kernel does what it does not
\* expect (fscheck.c:83-252).
THEOREM ImageChecked == CrashSpec => []ImageSound
<1>1. IInv => ImageSound
  <2> SUFFICES ASSUME IInv PROVE ImageSound
    OBVIOUS
  <2>1. TypeInv /\ DiskInv /\ DirInv /\ LinkInv
    BY Parts
  <2>2. \A i \in Inum : dinode[i] \in Inode /\ dinode[i].nlink \in Nat
    BY <2>1 DEF TypeInv, Inode
  <2>3. InUse(dinode) = {i \in Inum : dinode[i].nlink > 0}
    BY DEF InUse
  <2>4. \A i \in InUse(dinode) : i \in Inum /\ Alive(i) /\ dinode[i].nlink > 0
    BY <2>1, <2>2, <2>3 DEF DiskInv
  <2>5. RootInum \in InUse(dinode) /\ dinode[RootInum].type = "dir"
    BY <2>3, RootLinked, Numbers
  <2>6. \A i, j \in Allocated : dinode[i].addr = dinode[j].addr /\ dinode[i].addr # 0 => i = j
    BY <2>1 DEF DiskInv, Allocated
  <2>7. ~DataMarkedFree(dinode, bitmap) /\ ~BadSize(dinode)
    BY <2>1, <2>4 DEF DiskInv, DataMarkedFree, Used, BadSize
  <2>8. ~NoRoot(dinode, block) /\ ~BadCurrent(dinode, block)
    BY <2>1, Numbers DEF DiskInv, NoRoot, BadCurrent
  <2>9. ASSUME FreeReferred(dinode, block)
        PROVE  \E d \in Dirs \ {RootInum} : dinode[d].nlink > 0 /\ Names(d) = {}
    <3>1. PICK i \in InUse(dinode) : /\ dinode[i].type = "dir"
                                     /\ ~(Listed(block[dinode[i].addr]) \subseteq InUse(dinode))
      BY <2>9 DEF FreeReferred, InDirectory
    <3>2. PICK y : /\ dinode[i].type = "dir" /\ y \notin InUse(dinode)
                   /\ y \in Listed(block[dinode[i].addr])
      BY <3>1
    <3>3. i \in Inum /\ dinode[i].nlink > 0 /\ i \in Dirs
      BY <2>4, <3>2 DEF Dirs, Allocated, Alive
    <3>4. ASSUME NEW k \in Slot, \A j \in 1..k : block[dinode[i].addr].slot[j].inum # 0
          PROVE  y # block[dinode[i].addr].slot[k].inum
      <4>1. k \in 1..k
        BY DEF Slot
      <4>2. block[dinode[i].addr].slot[k].inum # 0
        BY <3>4, <4>1
      <4> QED BY <2>3, <3>2, <3>3, <4>2, EntryLinked
    <3>5. y = block[dinode[i].addr].up
      <4>1. block[dinode[i].addr].self = i
        BY <2>1, <3>2, <3>3 DEF DiskInv
      <4> QED BY <3>2, <3>4, <4>1 DEF Listed
    <3>6. i # RootInum
      BY <2>1, <2>5, <3>2, <3>5 DEF DiskInv
    <3>7. Names(i) = {}
      <4> SUFFICES ASSUME NEW e \in Names(i) PROVE FALSE
        OBVIOUS
      <4>1. y = e[1]
        BY <2>1, <3>3, <3>5 DEF DirInv
      <4>2. y \in Dirs /\ y \in Inum /\ i \in Subs(y)
        BY <3>3, <4>1 DEF Names, Subs, Subdirs, Dirs, Allocated
      <4>3. Cardinality(Subs(y)) > 0
        BY <4>2, DueFinite, FS_EmptySet
      <4>4. Due(y) > 0
        BY <4>2, <4>3, DueFinite DEF Due, Base
      <4>5. Due(y) <= dinode[y].nlink /\ Due(y) \in Nat
        BY <2>1, <4>2, DueFinite DEF LinkInv, Due, Base
      <4> QED BY <2>2, <2>3, <3>2, <4>2, <4>4, <4>5
    <3> QED BY <3>3, <3>6, <3>7
  <2>10. BadInode(dinode) => \E i \in Allocated : dinode[i].type = "sym"
    BY <2>2, <2>4 DEF BadInode, Allocated, Alive, Inode
  <2>11. MarkedUnused(dinode, bitmap) =>
           \E i \in Allocated : dinode[i].nlink = 0 /\ dinode[i].addr # 0
    <3> SUFFICES ASSUME NEW a \in bitmap, a \notin Used(dinode)
                 PROVE  \E i \in Allocated : dinode[i].nlink = 0 /\ dinode[i].addr # 0
      BY DEF MarkedUnused
    <3>1. PICK i \in Inum : a = dinode[i].addr /\ a # 0
      BY <2>1 DEF DiskInv
    <3>2. i \notin InUse(dinode)
      BY <3>1 DEF Used
    <3>3. dinode[i].nlink = 0
      BY <2>2, <2>3, <3>2
    <3>4. i \in Allocated
      BY <2>1, <3>1 DEF DiskInv, Allocated, Alive
    <3> QED BY <3>1, <3>3, <3>4
  <2>12. UsedNotFound(dinode, block) =>
           \/ \E i \in Allocated \ {RootInum} :
                  dinode[i].nlink > 0 /\ \A e \in Names(i) : dinode[e[1]].nlink = 0
           \/ \E d \in Dirs, j, k \in Slot :
                  LET slot == block[dinode[d].addr].slot
                  IN  j < k /\ slot[j].inum = 0 /\ slot[k].inum # 0
    <3> SUFFICES ASSUME NEW y \in InUse(dinode), y \notin InDirectory(dinode, block),
                        NEW e \in Names(y), dinode[e[1]].nlink # 0
                 PROVE  \E d \in Dirs, j, k \in Slot :
                          LET slot == block[dinode[d].addr].slot
                          IN  j < k /\ slot[j].inum = 0 /\ slot[k].inum # 0
      <4>1. \A y \in InUse(dinode) : y \notin InDirectory(dinode, block) =>
                                       y \in Allocated \ {RootInum}
        <5>1. RootInum \in InDirectory(dinode, block)
          <6>1. block[dinode[RootInum].addr].self = RootInum
            BY <2>1, <2>5, Numbers DEF DiskInv
          <6>2. RootInum \in Listed(block[dinode[RootInum].addr])
            BY <6>1 DEF Listed
          <6> QED BY <2>5, <6>2 DEF InDirectory
        <5> QED BY <2>4, <5>1 DEF Allocated, Alive
      <4> QED BY <2>4, <4>1 DEF UsedNotFound
    <3>1. PICK d \in Dirs, k \in Slot : e = <<d, k>> /\ block[dinode[d].addr].slot[k].inum = y
      BY DEF Names
    <3>2. d \in InUse(dinode) /\ dinode[d].type = "dir"
      BY <2>2, <2>3, <3>1 DEF Dirs, Allocated
    <3>3. y \notin Listed(block[dinode[d].addr])
      BY <3>2 DEF InDirectory
    <3>4. PICK j \in 1..k : block[dinode[d].addr].slot[j].inum = 0
      BY <3>1, <3>3 DEF Listed
    <3>5. y # 0
      BY <2>4, Numbers
    <3>6. j \in Slot /\ j < k
      BY <3>1, <3>4, <3>5, Numbers DEF Slot
    <3> QED BY <3>1, <3>4, <3>5, <3>6
  <2> QED BY <2>6, <2>7, <2>8, <2>9, <2>10, <2>11, <2>12 DEF ImageSound
<1> QED BY <1>1, Invariance, PTL
=============================================================================
