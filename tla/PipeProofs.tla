----------------------------- MODULE PipeProofs -----------------------------
(***************************************************************************)
(* Proofs about Pipe for every number of processes, every ring and every   *)
(* width of the counters: who may be asleep, who may hold what, and that a *)
(* pipe implements ByteQueue.                                              *)
(***************************************************************************)
EXTENDS Pipe, FiniteSetTheorems, SequenceTheorems, TLAPS

Holding == {"r_test", "r_sleep", "r_copy", "w_copy", "w_sleep"}

\* p->lock is held by the process that is in the middle of a call.
LockInv == \A p \in Proc : pc[p] \in Holding <=> lock = p

\* A process is inside a call only through a descriptor of its own.
FdInv == \A p \in Proc : /\ pc[p] \in Reading => p \in fds["r"]
                         /\ pc[p] \in Writing => p \in fds["w"]

\* An end is closed by the one process that had the last descriptor for it.
CloseInv == \A e \in End :
    /\ fds[e] # {} => open[e]
    /\ open[e] /\ fds[e] = {} => \E p \in Proc : pc[p] = Closing[e]
    /\ \A p \in Proc : pc[p] = Closing[e] =>
           /\ fds[e] = {} /\ open[e]
           /\ \A q \in Proc : pc[q] = Closing[e] => q = p

FreedInv == freed => \A e \in End : ~open[e]

\* Whoever goes to sleep has just seen a cause.  A process asleep has one, or
\* the holder of p->lock is about to wake it.
SleepInv == \A p \in Proc :
    /\ pc[p] = "r_sleep" => Empty /\ open["w"]
    /\ pc[p] = "w_sleep" => Full /\ open["r"]
    /\ pc[p] = "r_asleep" =>
           /\ open["w"]
           /\ Empty \/ p \in owed \/ \E q \in Proc : pc[q] = "w_copy"
    /\ pc[p] = "w_asleep" =>
           /\ open["r"]
           /\ Full \/ \E q \in Proc : pc[q] = "r_copy"

\* A reader that has copied nothing has not met a writer's end still open.
EofInv == \A p \in Proc : pc[p] = "r_copy" /\ i[p] = 0 /\ Empty => ~open["w"]

IInv == TypeOK /\ LockInv /\ FdInv /\ CloseInv /\ FreedInv /\ SleepInv /\ EofInv

(***************************************************************************)
(* Remainders, and counters that wrap around.                              *)
(***************************************************************************)

\* No multiple of m lies strictly between -m and m but 0.
LEMMA NoFactor ==
  ASSUME NEW m \in Nat \ {0}, NEW d \in Int, m * d < m, - m < m * d
  PROVE  d = 0
<1>1. CASE d >= 1
  <2>1. PICK c \in Nat : d = c + 1
    BY <1>1
  <2>2. m * d = m * c + m /\ m * c \in Nat
    BY <2>1
  <2> QED BY <2>2
<1>2. CASE d <= -1
  <2>1. PICK c \in Nat : d = - c - 1
    BY <1>2
  <2>2. m * d = - (m * c) - m /\ m * c \in Nat
    BY <2>1
  <2> QED BY <2>2
<1> QED BY <1>1, <1>2

\* What the remainder is ...
LEMMA Division ==
  ASSUME NEW x \in Nat, NEW m \in Nat \ {0}
  PROVE  /\ x % m \in 0..(m - 1)
         /\ \E q \in Nat : x = m * q + (x % m)
<1>1. x % m \in 0..(m - 1)
  OBVIOUS
<1>2. x \div m \in Int
  OBVIOUS
<1>3. x = m * (x \div m) + (x % m)
  OBVIOUS
<1>4. x \div m >= 0
  <2>1. CASE x \div m <= -1
    <3>1. PICK c \in Nat : x \div m = - c - 1
      BY <1>2, <2>1
    <3>2. m * (x \div m) = - (m * c) - m /\ m * c \in Nat
      BY <3>1
    <3> QED BY <1>1, <1>3, <3>2
  <2> QED BY <1>2, <2>1
<1>5. x \div m \in Nat
  BY <1>2, <1>4
<1> QED BY <1>1, <1>3, <1>5

\* ... and that nothing else is one.
LEMMA Remainder ==
  ASSUME NEW x \in Nat, NEW m \in Nat \ {0}, NEW q \in Int, NEW r \in 0..(m - 1),
         x = m * q + r
  PROVE  x % m = r
<1>1. PICK p \in Nat : x = m * p + (x % m)
  BY Division
<1>2. x % m \in 0..(m - 1)
  BY Division
<1>3. m * (p - q) = r - (x % m)
  <2>1. m * (p - q) = m * p - m * q
   OBVIOUS
  <2>2. m * p \in Int /\ m * q \in Int
    OBVIOUS
  <2> QED BY <1>1, <1>2, <2>1, <2>2
<1>4. p - q = 0
  BY <1>2, <1>3, NoFactor
<1> QED BY <1>2, <1>3, <1>4
\* A counter that is at most one turn ahead.
LEMMA Wrap ==
  ASSUME NEW x \in 0..(2 * UintSize - 1)
  PROVE  x % UintSize = IF x < UintSize THEN x ELSE x - UintSize
<1>1. UintSize \in Nat \ {0}
  BY SizeAssumption
<1>2. CASE x < UintSize
  <2>1. x = UintSize * 0 + x
    BY <1>1
  <2> QED BY <1>1, <1>2, <2>1, Remainder
<1>3. CASE ~(x < UintSize)
  <2>1. x = UintSize * 1 + (x - UintSize) /\ x - UintSize \in 0..(UintSize - 1)
    BY <1>1, <1>3
  <2> QED BY <1>1, <1>3, <2>1, Remainder
<1> QED BY <1>2, <1>3

\* The counters turn over a whole number of times round the ring.
LEMMA Turns ==
  ASSUME NEW x \in Nat
  PROVE  (x % UintSize) % PIPESIZE = x % PIPESIZE
<1>1. UintSize \in Nat \ {0} /\ PIPESIZE \in Nat \ {0}
  BY SizeAssumption
<1>2. PICK t \in Nat : UintSize = PIPESIZE * t + (UintSize % PIPESIZE)
  BY <1>1, Division
<1>3. UintSize = PIPESIZE * t
  BY <1>1, <1>2, SizeAssumption
<1>4. x % UintSize \in 0..(UintSize - 1)
  BY <1>1, Division
<1>5. PICK q \in Nat : x = UintSize * q + (x % UintSize)
  BY <1>1, Division
<1> DEFINE y == x % UintSize
<1>6. y \in Nat
  BY <1>1, <1>4
<1> HIDE DEF y
<1>7. PICK s \in Nat : y = PIPESIZE * s + (y % PIPESIZE)
  BY <1>1, <1>6, Division
<1>8. y % PIPESIZE \in 0..(PIPESIZE - 1)
  BY <1>1, <1>6, Division
<1>9. x = PIPESIZE * (t * q + s) + (y % PIPESIZE)
  <2>1. UintSize * q = PIPESIZE * (t * q)
    BY <1>1, <1>3
  <2>2. PIPESIZE * (t * q + s) = PIPESIZE * (t * q) + PIPESIZE * s
    BY <1>1
  <2>3. x = UintSize * q + y
    BY <1>5 DEF y
  <2>4. /\ PIPESIZE * (t * q) \in Nat /\ PIPESIZE * s \in Nat /\ UintSize * q \in Nat
        /\ y % PIPESIZE \in Nat
    BY <1>1, <1>8
  <2> QED BY <1>7, <2>1, <2>2, <2>3, <2>4
<1>10. t * q + s \in Int
  OBVIOUS
<1>11. x % PIPESIZE = y % PIPESIZE
  BY <1>1, <1>8, <1>9, <1>10, Remainder
<1> QED BY <1>11 DEF y

\* The place in the ring of the k-th byte when nread is r.
Slot(r, k) == ((r + k - 1) % UintSize) % PIPESIZE

\* Bytes that are in the ring together are in different places.
LEMMA SlotsApart ==
  ASSUME NEW r \in 0..(UintSize - 1), NEW j \in 1..PIPESIZE, NEW k \in 1..PIPESIZE,
         Slot(r, j) = Slot(r, k)
  PROVE  j = k
<1>1. UintSize \in Nat \ {0} /\ PIPESIZE \in Nat \ {0}
  BY SizeAssumption
<1>2. r + j - 1 \in Nat /\ r + k - 1 \in Nat
  BY <1>1
<1>3. (r + j - 1) % PIPESIZE = (r + k - 1) % PIPESIZE
  BY <1>2, Turns DEF Slot
<1>4. PICK a \in Nat : r + j - 1 = PIPESIZE * a + ((r + j - 1) % PIPESIZE)
  BY <1>1, <1>2, Division
<1>5. PICK b \in Nat : r + k - 1 = PIPESIZE * b + ((r + k - 1) % PIPESIZE)
  BY <1>1, <1>2, Division
<1>6. (r + k - 1) % PIPESIZE \in Nat
  BY <1>1, <1>2, Division
<1>7. PIPESIZE * (a - b) = j - k
  <2>1. PIPESIZE * (a - b) = PIPESIZE * a - PIPESIZE * b
    BY <1>1
  <2>2. PICK A \in Nat : A = PIPESIZE * a
    BY <1>1
  <2>3. PICK B \in Nat : B = PIPESIZE * b
    BY <1>1
  <2>4. PICK v \in Nat : v = (r + j - 1) % PIPESIZE /\ v = (r + k - 1) % PIPESIZE
    BY <1>3, <1>6
  <2>5. r + j - 1 = A + v /\ r + k - 1 = B + v
    BY <1>4, <1>5, <2>2, <2>3, <2>4
  <2>6. j - k = A - B
    BY <1>1, <2>5
  <2> QED BY <2>1, <2>2, <2>3, <2>6
<1>8. a - b \in Int /\ PIPESIZE * (a - b) < PIPESIZE /\ - PIPESIZE < PIPESIZE * (a - b)
  BY <1>1, <1>7
<1>9. a - b = 0
  BY <1>1, <1>8, NoFactor
<1> QED BY <1>1, <1>7, <1>9

\* What is in the ring, without the remainder.
LEMMA GapIs ==
  ASSUME NEW r \in 0..(UintSize - 1), NEW w \in 0..(UintSize - 1)
  PROVE  (w + UintSize - r) % UintSize = IF w >= r THEN w - r ELSE w + UintSize - r
<1>1. UintSize \in Nat
  BY SizeAssumption
<1>2. PICK x \in 0..(2 * UintSize - 1) : x = w + UintSize - r
  BY SizeAssumption
<1>3. x % UintSize = IF x < UintSize THEN x ELSE x - UintSize
  BY Wrap
<1>4. x < UintSize <=> ~(w >= r)
  BY <1>1, <1>2
<1>5. w >= r => x - UintSize = w - r
  BY <1>1, <1>2
<1> QED BY <1>2, <1>3, <1>4, <1>5

\* Where the counters are one byte later.
LEMMA NextIs ==
  ASSUME NEW x \in 0..(UintSize - 1)
  PROVE  (x + 1) % UintSize = IF x + 1 = UintSize THEN 0 ELSE x + 1
<1>1. x + 1 \in 0..(2 * UintSize - 1)
  BY SizeAssumption
<1> QED BY <1>1, Wrap, SizeAssumption

(***************************************************************************)
(* Counting the bytes in the ring.                                         *)
(***************************************************************************)

\* The tests of pipe.c tell an empty ring from a full one.
LEMMA Counted ==
  ASSUME TypeOK
  PROVE  /\ Used \in 0..PIPESIZE
         /\ Empty <=> Used = 0
         /\ Full <=> Used = PIPESIZE
<1>1. nread \in 0..(UintSize - 1) /\ nwrite \in 0..(UintSize - 1) /\ Used <= PIPESIZE
  BY DEF TypeOK
<1>2. UintSize \in Nat /\ PIPESIZE \in Nat \ {0} /\ PIPESIZE < UintSize
  BY SizeAssumption
<1>3. Used = IF nwrite >= nread THEN nwrite - nread ELSE nwrite + UintSize - nread
  BY <1>1, GapIs DEF Used
<1>4. PICK x \in 0..(2 * UintSize - 1) : x = nread + PIPESIZE
  BY <1>1, <1>2
<1>5. x % UintSize = IF x < UintSize THEN x ELSE x - UintSize
  BY Wrap
<1> QED BY <1>1, <1>2, <1>3, <1>4, <1>5 DEF Empty, Full

\* A byte read leaves one less.
LEMMA CountedRead ==
  ASSUME TypeOK, NEW p \in Proc, ReadCopy(p)
  PROVE  nread' \in 0..(UintSize - 1) /\ Used' = Used - 1 /\ Used \in 1..PIPESIZE
<1>1. nread \in 0..(UintSize - 1) /\ nwrite \in 0..(UintSize - 1)
  BY DEF TypeOK
<1>2. UintSize \in Nat /\ PIPESIZE \in Nat \ {0} /\ PIPESIZE < UintSize
  BY SizeAssumption
<1>3. Used \in 1..PIPESIZE
  BY <1>2, Counted DEF ReadCopy
<1>4. Used = IF nwrite >= nread THEN nwrite - nread ELSE nwrite + UintSize - nread
  BY <1>1, GapIs DEF Used
<1>5. nread' = (nread + 1) % UintSize /\ nwrite' = nwrite
  BY DEF ReadCopy
<1>6. nread' = IF nread + 1 = UintSize THEN 0 ELSE nread + 1
  BY <1>1, <1>5, NextIs
<1>7. nread' \in 0..(UintSize - 1)
  BY <1>1, <1>2, <1>6
<1>8. Used' = IF nwrite >= nread' THEN nwrite - nread' ELSE nwrite + UintSize - nread'
  BY <1>1, <1>5, <1>7, GapIs DEF Used
<1> QED BY <1>1, <1>2, <1>3, <1>4, <1>6, <1>7, <1>8

\* A byte written makes one more.
LEMMA CountedWrite ==
  ASSUME TypeOK, NEW p \in Proc, NEW b \in Byte, WriteCopy(p, b)
  PROVE  nwrite' \in 0..(UintSize - 1) /\ Used' = Used + 1 /\ Used \in 0..(PIPESIZE - 1)
<1>1. nread \in 0..(UintSize - 1) /\ nwrite \in 0..(UintSize - 1)
  BY DEF TypeOK
<1>2. UintSize \in Nat /\ PIPESIZE \in Nat \ {0} /\ PIPESIZE < UintSize
  BY SizeAssumption
<1>3. Used \in 0..(PIPESIZE - 1)
  BY <1>2, Counted DEF WriteCopy
<1>4. Used = IF nwrite >= nread THEN nwrite - nread ELSE nwrite + UintSize - nread
  BY <1>1, GapIs DEF Used
<1>5. nwrite' = (nwrite + 1) % UintSize /\ nread' = nread
  BY DEF WriteCopy
<1>6. nwrite' = IF nwrite + 1 = UintSize THEN 0 ELSE nwrite + 1
  BY <1>1, <1>5, NextIs
<1>7. nwrite' \in 0..(UintSize - 1)
  BY <1>1, <1>2, <1>6
<1>8. Used' = IF nwrite' >= nread THEN nwrite' - nread ELSE nwrite' + UintSize - nread
  BY <1>1, <1>5, <1>7, GapIs DEF Used
<1> QED BY <1>1, <1>2, <1>3, <1>4, <1>6, <1>7, <1>8

(***************************************************************************)
(* The invariant.                                                          *)
(***************************************************************************)

\* The places a process can be in.
Label == Reading \union Writing \union {"user", "unborn", "gone", "r_close", "w_close"}

\* TypeOK but for pc, in two halves.
Ring == /\ data \in [0..(PIPESIZE - 1) -> Byte]
        /\ nread \in 0..(UintSize - 1) /\ nwrite \in 0..(UintSize - 1)
        /\ Used <= PIPESIZE
Rest == /\ open \in [End -> BOOLEAN] /\ freed \in BOOLEAN
        /\ lock \in Proc \union {NoProc}
        /\ fds \in [End -> SUBSET Proc]
        /\ n \in [Proc -> 0..MaxN] /\ i \in [Proc -> 0..MaxN]
        /\ killed \subseteq Proc /\ exiting \subseteq Proc
        /\ answer \in Byte \union {Eof, Nothing}
        /\ owed \subseteq Proc

\* A process goes to one place, and the sleepers it wakes to theirs.
LEMMA Moved ==
  ASSUME pc \in [Proc -> Label], NEW p \in Proc, NEW l \in Label,
         \/ Goto(p, l)
         \/ \E asleep \in {"r_asleep", "w_asleep"} : Wakeup(asleep, p, l)
  PROVE  pc' \in [Proc -> Label]
<1>1. CASE Goto(p, l)
  BY <1>1 DEF Goto
<1>2. ASSUME NEW asleep \in {"r_asleep", "w_asleep"}, Wakeup(asleep, p, l)
      PROVE  pc' \in [Proc -> Label]
  <2>1. Woken(asleep) \in Label
    BY <1>2 DEF Woken, Label, Reading, Writing
  <2> QED BY <1>2, <2>1 DEF Wakeup
<1> QED BY <1>1, <1>2

\* Every step keeps the types, and at most PIPESIZE bytes in the ring.
LEMMA TypeStep ==
  ASSUME TypeOK, [Next]_vars
  PROVE  TypeOK'
<1>1. pc \in [Proc -> Label] /\ Rest
  BY DEF TypeOK, Label, Rest
<1>2. data \in [0..(PIPESIZE - 1) -> Byte] /\ Used \in 0..PIPESIZE
  BY Counted DEF TypeOK
<1>3. \A l \in {"r_lock", "r_test", "r_sleep", "r_asleep", "r_copy", "w_lock", "w_copy",
                "w_sleep", "w_asleep", "user", "gone", "r_close", "w_close"} : l \in Label
  BY DEF Label, Reading, Writing
<1>4. ASSUME NEW p \in Proc, Read(p) PROVE pc' \in [Proc -> Label] /\ Rest'
  <2>1. pc' \in [Proc -> Label]
    BY <1>1, <1>3, <1>4, Moved DEF Read, Call, ring, procs, End
  <2>2. Rest'
    BY <1>1, <1>2, <1>4, SizeAssumption, NameAssumption DEF Rest, Read, Call,
       ring, procs
  <2> QED BY <2>1, <2>2
<1>5. ASSUME NEW p \in Proc, Write(p) PROVE pc' \in [Proc -> Label] /\ Rest'
  <2>1. pc' \in [Proc -> Label]
    BY <1>1, <1>3, <1>5, Moved DEF Write, Call, ring, procs, End
  <2>2. Rest'
    BY <1>1, <1>2, <1>5, SizeAssumption, NameAssumption DEF Rest, Write, Call,
       ring, procs
  <2> QED BY <2>1, <2>2
<1>6. ASSUME NEW p \in Proc, ReadLock(p) PROVE pc' \in [Proc -> Label] /\ Rest'
  <2>1. pc' \in [Proc -> Label]
    BY <1>1, <1>3, <1>6, Moved DEF ReadLock, Lock, ring, procs, End
  <2>2. Rest'
    BY <1>1, <1>2, <1>6, SizeAssumption, NameAssumption DEF Rest, ReadLock,
       Lock, ring, procs
  <2> QED BY <2>1, <2>2
<1>7. ASSUME NEW p \in Proc, WriteLock(p) PROVE pc' \in [Proc -> Label] /\ Rest'
  <2>1. pc' \in [Proc -> Label]
    BY <1>1, <1>3, <1>7, Moved DEF WriteLock, Lock, ring, procs, End
  <2>2. Rest'
    BY <1>1, <1>2, <1>7, SizeAssumption, NameAssumption DEF Rest, WriteLock,
       Lock, ring, procs
  <2> QED BY <2>1, <2>2
<1>8. ASSUME NEW p \in Proc, ReadTest(p) PROVE pc' \in [Proc -> Label] /\ Rest'
  <2>1. pc' \in [Proc -> Label]
    BY <1>1, <1>3, <1>8, Moved DEF ReadTest, ring, procs, End
  <2>2. Rest'
    <3>1. \/ lock' = lock /\ n' = n
          \/ lock' = NoProc /\ n' = [n EXCEPT ![p] = 0]
      BY <1>8 DEF ReadTest
    <3>2. UNCHANGED <<open, freed, fds, i, killed, exiting, answer, owed>>
      BY <1>8 DEF ReadTest, procs
    <3> QED BY <1>1, <3>1, <3>2, SizeAssumption DEF Rest
  <2> QED BY <2>1, <2>2
<1>9. ASSUME NEW p \in Proc, ReadSleep(p) PROVE pc' \in [Proc -> Label] /\ Rest'
  <2>1. pc' \in [Proc -> Label]
    BY <1>1, <1>3, <1>9, Moved DEF ReadSleep, Sleep, ring, procs, End
  <2>2. Rest'
    BY <1>1, <1>2, <1>9, SizeAssumption, NameAssumption DEF Rest, ReadSleep,
       Sleep, ring, procs
  <2> QED BY <2>1, <2>2
<1>10. ASSUME NEW p \in Proc, WriteSleep(p) PROVE pc' \in [Proc -> Label] /\ Rest'
  <2>1. pc' \in [Proc -> Label]
    BY <1>1, <1>3, <1>10, Moved DEF WriteSleep, Sleep, ring, procs, End
  <2>2. Rest'
    BY <1>1, <1>2, <1>10, SizeAssumption, NameAssumption DEF Rest, WriteSleep,
       Sleep, ring, procs
  <2> QED BY <2>1, <2>2
<1>11. ASSUME NEW p \in Proc, ReadCopy(p) PROVE pc' \in [Proc -> Label] /\ Rest'
  <2>1. pc' \in [Proc -> Label]
    BY <1>1, <1>3, <1>11, Moved DEF ReadCopy, ring, procs, End
  <2>2. Rest'
    <3>1. nread % PIPESIZE \in 0..(PIPESIZE - 1)
      <4>1. nread \in Nat
        BY SizeAssumption DEF TypeOK
      <4> QED BY <4>1, Division, SizeAssumption
    <3>2. answer' \in Byte
      BY <1>2, <1>11, <3>1 DEF ReadCopy
    <3>3. i' \in [Proc -> 0..MaxN]
      BY <1>1, <1>11, SizeAssumption DEF Rest, ReadCopy
    <3> QED BY <1>1, <1>11, <3>2, <3>3 DEF Rest, ReadCopy, procs
  <2> QED BY <2>1, <2>2
<1>12. ASSUME NEW p \in Proc, NEW b \in Byte, WriteCopy(p, b) PROVE pc' \in [Proc -> Label] /\ Rest'
  <2>1. pc' \in [Proc -> Label]
    BY <1>1, <1>3, <1>12, Moved DEF WriteCopy, ring, procs, End
  <2>2. Rest'
    BY <1>1, <1>2, <1>12, SizeAssumption, NameAssumption DEF Rest, WriteCopy,
       ring, procs
  <2> QED BY <2>1, <2>2
<1>13. ASSUME NEW p \in Proc, ReadReturn(p) PROVE pc' \in [Proc -> Label] /\ Rest'
  <2>1. pc' \in [Proc -> Label]
    BY <1>1, <1>3, <1>13, Moved DEF ReadReturn, ring, procs, End
  <2>2. Rest'
    BY <1>1, <1>2, <1>13, SizeAssumption, NameAssumption DEF Rest, Wakeup, ReadReturn,
       ring, procs
  <2> QED BY <2>1, <2>2
<1>14. ASSUME NEW p \in Proc, WriteReturn(p) PROVE pc' \in [Proc -> Label] /\ Rest'
  <2>1. pc' \in [Proc -> Label]
    BY <1>1, <1>3, <1>14, Moved DEF WriteReturn, ring, procs, End
  <2>2. Rest'
    BY <1>1, <1>2, <1>14, SizeAssumption, NameAssumption DEF Rest, Wakeup, WriteReturn,
       ring, procs
  <2> QED BY <2>1, <2>2
<1>15. ASSUME NEW p \in Proc, WriteFull(p) PROVE pc' \in [Proc -> Label] /\ Rest'
  <2>1. pc' \in [Proc -> Label]
    BY <1>1, <1>3, <1>15, Moved DEF WriteFull, ring, procs, End
  <2>2. Rest'
    <3>1. \/ lock' = lock /\ n' = n /\ i' = i
          \/ /\ lock' = NoProc
             /\ n' = [n EXCEPT ![p] = 0] /\ i' = [i EXCEPT ![p] = 0]
      BY <1>15 DEF WriteFull
    <3>2. UNCHANGED <<open, freed, fds, killed, exiting, answer>>
      BY <1>15 DEF WriteFull, procs
    <3>3. owed' \subseteq Proc
      BY <1>1, <1>15 DEF WriteFull, Wakeup, Rest
    <3> QED BY <1>1, <3>1, <3>2, <3>3, SizeAssumption DEF Rest
  <2> QED BY <2>1, <2>2
<1>16. ASSUME NEW p \in Proc, NEW e \in End, PipeClose(p, e) PROVE pc' \in [Proc -> Label] /\ Rest'
  <2>1. pc' \in [Proc -> Label]
    BY <1>1, <1>3, <1>16, Moved DEF PipeClose, ring, procs, End, Closing
  <2>2. Rest'
    BY <1>1, <1>2, <1>16, SizeAssumption, NameAssumption DEF Rest, Wakeup, PipeClose,
       ring, procs
  <2> QED BY <2>1, <2>2
<1>17. ASSUME NEW p \in Proc, NEW e \in End, Close(p, e) PROVE pc' \in [Proc -> Label] /\ Rest'
  <2>1. pc' \in [Proc -> Label]
    BY <1>1, <1>3, <1>17, Moved DEF Close, ring, procs, End, Closing
  <2>2. Rest'
    BY <1>1, <1>2, <1>17, SizeAssumption, NameAssumption DEF Rest, Close, ring,
       procs
  <2> QED BY <2>1, <2>2
<1>18. ASSUME NEW p \in Proc, NEW c \in Proc, Fork(p, c) PROVE pc' \in [Proc -> Label] /\ Rest'
  <2>1. pc' \in [Proc -> Label]
    BY <1>1, <1>3, <1>18, Moved DEF Fork, ring, procs, End
  <2>2. Rest'
    BY <1>1, <1>2, <1>18, SizeAssumption, NameAssumption DEF Rest, Fork, ring,
       procs
  <2> QED BY <2>1, <2>2
<1>19. ASSUME NEW p \in Proc, Kill(p) PROVE pc' \in [Proc -> Label] /\ Rest'
  <2>1. pc' \in [Proc -> Label]
    BY <1>1, <1>3, <1>19, Moved DEF Kill, ring, procs, End, Woken
  <2>2. Rest'
    BY <1>1, <1>2, <1>19, SizeAssumption, NameAssumption DEF Rest, Kill, ring,
       procs
  <2> QED BY <2>1, <2>2
<1>20. ASSUME NEW p \in Proc, Exit(p) PROVE pc' \in [Proc -> Label] /\ Rest'
  <2>1. pc' \in [Proc -> Label]
    BY <1>1, <1>3, <1>20, Moved DEF Exit, ring, procs, End
  <2>2. Rest'
    BY <1>1, <1>2, <1>20, SizeAssumption, NameAssumption DEF Rest, Exit, ring,
       procs
  <2> QED BY <2>1, <2>2
<1>21. ASSUME NEW p \in Proc, Gone(p) PROVE pc' \in [Proc -> Label] /\ Rest'
  <2>1. pc' \in [Proc -> Label]
    BY <1>1, <1>3, <1>21, Moved DEF Gone, ring, procs, End
  <2>2. Rest'
    BY <1>1, <1>2, <1>21, SizeAssumption, NameAssumption DEF Rest, Gone, ring,
       procs
  <2> QED BY <2>1, <2>2
<1>22. ASSUME UNCHANGED vars PROVE pc' \in [Proc -> Label] /\ Rest'
  BY <1>1, <1>22 DEF Rest, vars, ring, procs
<1>23. pc' \in [Proc -> Label] /\ Rest'
  BY <1>4, <1>5, <1>6, <1>7, <1>8, <1>9, <1>10, <1>11, <1>12, <1>13, <1>14,
     <1>15, <1>16, <1>17, <1>18, <1>19, <1>20, <1>21, <1>22 DEF Next, Step
<1>24. ASSUME NEW p \in Proc, ReadCopy(p) PROVE Ring'
  <2>1. Used' \in Nat /\ Used' <= PIPESIZE
    BY <1>24, CountedRead, SizeAssumption
  <2>2. nread' \in 0..(UintSize - 1)
    BY <1>24, CountedRead
  <2> QED BY <1>2, <1>24, <2>1, <2>2 DEF TypeOK, Ring, ReadCopy
<1>25. ASSUME NEW p \in Proc, NEW b \in Byte, WriteCopy(p, b) PROVE Ring'
  <2>1. Used' \in Nat /\ Used' <= PIPESIZE
    BY <1>25, CountedWrite, SizeAssumption
  <2>2. nwrite' \in 0..(UintSize - 1)
    BY <1>25, CountedWrite
  <2>3. data' \in [0..(PIPESIZE - 1) -> Byte]
    BY <1>2, <1>25 DEF WriteCopy
  <2> QED BY <1>25, <2>1, <2>2, <2>3 DEF TypeOK, Ring, WriteCopy
<1>26. ASSUME UNCHANGED ring PROVE Ring'
  BY <1>26 DEF TypeOK, Ring, ring, Used
<1>27. Ring'
  <2>1. \/ \E p \in Proc : ReadCopy(p) \/ \E b \in Byte : WriteCopy(p, b)
        \/ UNCHANGED ring
    <3>1. ASSUME NEW p \in Proc, Step(p) \/ Read(p) \/ Write(p)
          PROVE  \/ ReadCopy(p) \/ \E b \in Byte : WriteCopy(p, b)
                 \/ UNCHANGED ring
      BY <3>1 DEF Step, Read, Write, Call, ReadLock, WriteLock, Lock, ReadTest, ReadSleep,
                  WriteSleep, Sleep, ReadReturn, WriteReturn, WriteFull, PipeClose, Gone
    <3>2. ASSUME NEW p \in Proc, NEW e \in End, NEW c \in Proc,
                 Close(p, e) \/ Fork(p, c) \/ Kill(p) \/ Exit(p)
          PROVE  UNCHANGED ring
      BY <3>2 DEF Close, Fork, Kill, Exit
    <3> QED BY <3>1, <3>2 DEF Next, vars, End
  <2> QED BY <1>24, <1>25, <1>26, <2>1
<1> QED BY <1>23, <1>27 DEF TypeOK, Label, Rest, Ring

\* p->lock is held by whoever is inside, and given up when it leaves.
LEMMA LockStep ==
  ASSUME TypeOK, LockInv, [Next]_vars
  PROVE  LockInv'
<1>1. ASSUME NEW p \in Proc, Read(p) \/ Write(p) PROVE LockInv'
  BY <1>1, NameAssumption DEF TypeOK, LockInv, Holding, Goto, Reading,
     Writing, ring, procs, Read, Write, Call
<1>2. ASSUME NEW p \in Proc, ReadLock(p) \/ WriteLock(p) \/ ReadSleep(p) \/ WriteSleep(p)
      PROVE  LockInv'
  BY <1>2, NameAssumption DEF TypeOK, LockInv, Holding, Goto, Reading,
     Writing, ring, procs, ReadLock, WriteLock, Lock, ReadSleep, WriteSleep,
     Sleep
<1>3. ASSUME NEW p \in Proc, ReadTest(p) PROVE LockInv'
  BY <1>3, NameAssumption DEF TypeOK, LockInv, Holding, Goto, Reading,
     Writing, ring, procs, ReadTest
<1>4. ASSUME NEW p \in Proc, ReadCopy(p) \/ \E b \in Byte : WriteCopy(p, b) PROVE LockInv'
  BY <1>4, NameAssumption DEF TypeOK, LockInv, Holding, Goto, Reading,
     Writing, ring, procs, ReadCopy, WriteCopy
<1>5. ASSUME NEW p \in Proc, ReadReturn(p) PROVE LockInv'
  BY <1>5, NameAssumption DEF TypeOK, LockInv, Holding, Goto, Reading,
     Writing, ring, procs, ReadReturn, Wakeup, Woken
<1>6. ASSUME NEW p \in Proc, WriteReturn(p) PROVE LockInv'
  BY <1>6, NameAssumption DEF TypeOK, LockInv, Holding, Goto, Reading,
     Writing, ring, procs, WriteReturn, Wakeup, Woken
<1>7. ASSUME NEW p \in Proc, WriteFull(p) PROVE LockInv'
  BY <1>7, NameAssumption DEF TypeOK, LockInv, Holding, Goto, Reading,
     Writing, ring, procs, WriteFull, Wakeup, Woken
<1>8. ASSUME NEW p \in Proc, NEW e \in End, PipeClose(p, e) PROVE LockInv'
  BY <1>8, NameAssumption DEF TypeOK, LockInv, Holding, Goto, Reading,
     Writing, ring, procs, PipeClose, Wakeup, Woken, Closing
<1>9. ASSUME NEW p \in Proc, NEW e \in End, Close(p, e) PROVE LockInv'
  <2>1. /\ pc'[p] \in {"user", "r_close", "w_close"}
        /\ pc' = [pc EXCEPT ![p] = pc'[p]]
    BY <1>9 DEF Close, Goto, Closing, End, TypeOK
  <2> QED BY <1>9, <2>1 DEF Close, TypeOK, LockInv, Holding
<1>10. ASSUME NEW p \in Proc, NEW c \in Proc, Fork(p, c) PROVE LockInv'
  BY <1>10, NameAssumption DEF TypeOK, LockInv, Holding, Goto, Reading,
     Writing, ring, procs, Fork
<1>11. ASSUME NEW p \in Proc, Kill(p) PROVE LockInv'
  BY <1>11, NameAssumption DEF TypeOK, LockInv, Holding, Goto, Reading,
     Writing, ring, procs, Kill, Woken
<1>12. ASSUME NEW p \in Proc, Exit(p) \/ Gone(p) PROVE LockInv'
  BY <1>12, NameAssumption DEF TypeOK, LockInv, Holding, Goto, Reading,
     Writing, ring, procs, Exit, Gone
<1>13. CASE UNCHANGED vars
  BY <1>13 DEF TypeOK, LockInv, Holding, Goto, Reading, Writing, ring, procs,
     vars
<1> QED BY <1>1, <1>2, <1>3, <1>4, <1>5, <1>6, <1>7, <1>8, <1>9, <1>10,
     <1>11, <1>12, <1>13 DEF Next, Step

\* A descriptor is closed outside of calls only.
LEMMA FdStep ==
  ASSUME TypeOK, FdInv, [Next]_vars
  PROVE  FdInv'
<1>1. ASSUME NEW p \in Proc, Read(p) \/ Write(p) PROVE FdInv'
  BY <1>1 DEF TypeOK, FdInv, Goto, Reading, Writing, ring, procs, End, Read,
     Write, Call
<1>2. ASSUME NEW p \in Proc, ReadLock(p) \/ WriteLock(p) \/ ReadSleep(p) \/ WriteSleep(p)
      PROVE  FdInv'
  BY <1>2 DEF TypeOK, FdInv, Goto, Reading, Writing, ring, procs, End,
     ReadLock, WriteLock, Lock, ReadSleep, WriteSleep, Sleep
<1>3. ASSUME NEW p \in Proc, ReadTest(p) PROVE FdInv'
  BY <1>3 DEF TypeOK, FdInv, Goto, Reading, Writing, ring, procs, End,
     ReadTest
<1>4. ASSUME NEW p \in Proc, ReadCopy(p) \/ \E b \in Byte : WriteCopy(p, b) PROVE FdInv'
  BY <1>4 DEF TypeOK, FdInv, Goto, Reading, Writing, ring, procs, End,
     ReadCopy, WriteCopy
<1>5. ASSUME NEW p \in Proc, ReadReturn(p) PROVE FdInv'
  BY <1>5 DEF TypeOK, FdInv, Goto, Reading, Writing, ring, procs, End,
     ReadReturn, Wakeup, Woken
<1>6. ASSUME NEW p \in Proc, WriteReturn(p) PROVE FdInv'
  BY <1>6 DEF TypeOK, FdInv, Goto, Reading, Writing, ring, procs, End,
     WriteReturn, Wakeup, Woken
<1>7. ASSUME NEW p \in Proc, WriteFull(p) PROVE FdInv'
  BY <1>7 DEF TypeOK, FdInv, Goto, Reading, Writing, ring, procs, End,
     WriteFull, Wakeup, Woken
<1>8. ASSUME NEW p \in Proc, NEW e \in End, PipeClose(p, e) PROVE FdInv'
  BY <1>8 DEF TypeOK, FdInv, Goto, Reading, Writing, ring, procs, End,
     PipeClose, Wakeup, Woken, Closing
<1>9. ASSUME NEW p \in Proc, NEW e \in End, Close(p, e) PROVE FdInv'
  BY <1>9 DEF TypeOK, FdInv, Goto, Reading, Writing, ring, procs, End, Close,
     Closing
<1>10. ASSUME NEW p \in Proc, NEW c \in Proc, Fork(p, c) PROVE FdInv'
  BY <1>10 DEF TypeOK, FdInv, Goto, Reading, Writing, ring, procs, End, Fork
<1>11. ASSUME NEW p \in Proc, Kill(p) PROVE FdInv'
  BY <1>11 DEF TypeOK, FdInv, Goto, Reading, Writing, ring, procs, End, Kill,
     Woken
<1>12. ASSUME NEW p \in Proc, Exit(p) \/ Gone(p) PROVE FdInv'
  BY <1>12 DEF TypeOK, FdInv, Goto, Reading, Writing, ring, procs, End, Exit,
     Gone
<1>13. CASE UNCHANGED vars
  BY <1>13 DEF TypeOK, FdInv, Goto, Reading, Writing, ring, procs, End, vars
<1> QED BY <1>1, <1>2, <1>3, <1>4, <1>5, <1>6, <1>7, <1>8, <1>9, <1>10,
     <1>11, <1>12, <1>13 DEF Next, Step

\* Only Close, PipeClose and Fork have to do with the ends.
LEMMA CloseKept ==
  ASSUME CloseInv, UNCHANGED <<fds, open>>,
         \A p \in Proc, e \in End : pc'[p] = Closing[e] <=> pc[p] = Closing[e]
  PROVE  CloseInv'
BY DEF CloseInv

\* The last holder of an end goes and closes it, and nobody else does.
LEMMA CloseStep ==
  ASSUME TypeOK, CloseInv, [Next]_vars
  PROVE  CloseInv'
<1>1. ASSUME NEW p \in Proc, Read(p) \/ Write(p) PROVE CloseInv'
  BY <1>1 DEF TypeOK, CloseInv, Closing, Goto, Reading, Writing, ring, procs,
     End, Read, Write, Call
<1>2. ASSUME NEW p \in Proc, ReadLock(p) PROVE CloseInv'
  BY <1>2 DEF TypeOK, CloseInv, Closing, Goto, Reading, Writing, ring, procs,
     End, ReadLock, Lock
<1>3. ASSUME NEW p \in Proc, WriteLock(p) PROVE CloseInv'
  BY <1>3 DEF TypeOK, CloseInv, Closing, Goto, Reading, Writing, ring, procs,
     End, WriteLock, Lock
<1>4. ASSUME NEW p \in Proc, ReadSleep(p) PROVE CloseInv'
  BY <1>4 DEF TypeOK, CloseInv, Closing, Goto, Reading, Writing, ring, procs,
     End, ReadSleep, Sleep
<1>5. ASSUME NEW p \in Proc, WriteSleep(p) PROVE CloseInv'
  BY <1>5 DEF TypeOK, CloseInv, Closing, Goto, Reading, Writing, ring, procs,
     End, WriteSleep, Sleep
<1>6. ASSUME NEW p \in Proc, ReadTest(p) PROVE CloseInv'
  <2>1. \A q \in Proc, e \in End : pc'[q] = Closing[e] <=> pc[q] = Closing[e]
    BY <1>6 DEF TypeOK, Closing, End, Goto, Reading, Writing, ReadTest
  <2>2. UNCHANGED <<fds, open>>
    BY <1>6 DEF ReadTest
  <2> QED BY <2>1, <2>2, CloseKept
<1>7. ASSUME NEW p \in Proc, ReadCopy(p) \/ \E b \in Byte : WriteCopy(p, b) PROVE CloseInv'
  BY <1>7 DEF TypeOK, CloseInv, Closing, Goto, Reading, Writing, ring, procs,
     End, ReadCopy, WriteCopy
<1>8. ASSUME NEW p \in Proc, ReadReturn(p) PROVE CloseInv'
  <2>1. \A q \in Proc, e \in End : pc'[q] = Closing[e] <=> pc[q] = Closing[e]
    BY <1>8 DEF TypeOK, Closing, End, Goto, Reading, Writing, ReadReturn, Wakeup, Woken
  <2>2. UNCHANGED <<fds, open>>
    BY <1>8 DEF ReadReturn
  <2> QED BY <2>1, <2>2, CloseKept
<1>9. ASSUME NEW p \in Proc, WriteReturn(p) PROVE CloseInv'
  <2>1. \A q \in Proc, e \in End : pc'[q] = Closing[e] <=> pc[q] = Closing[e]
    BY <1>9 DEF TypeOK, Closing, End, Goto, Reading, Writing, WriteReturn, Wakeup, Woken
  <2>2. UNCHANGED <<fds, open>>
    BY <1>9 DEF WriteReturn
  <2> QED BY <2>1, <2>2, CloseKept
<1>10. ASSUME NEW p \in Proc, WriteFull(p) PROVE CloseInv'
  <2>1. \A q \in Proc, e \in End : pc'[q] = Closing[e] <=> pc[q] = Closing[e]
    BY <1>10 DEF TypeOK, Closing, End, Goto, Reading, Writing, WriteFull, Wakeup, Woken
  <2>2. UNCHANGED <<fds, open>>
    BY <1>10 DEF WriteFull
  <2> QED BY <2>1, <2>2, CloseKept
<1>11. ASSUME NEW p \in Proc, NEW e \in End, PipeClose(p, e) PROVE CloseInv'
  <2>1. /\ fds' = fds /\ ~open'[e]
        /\ \A x \in End : x # e => open'[x] = open[x]
    BY <1>11 DEF PipeClose, TypeOK
  <2>2. /\ \A x \in End : pc'[p] # Closing[x]
        /\ \A q \in Proc, x \in End : q # p => (pc'[q] = Closing[x] <=> pc[q] = Closing[x])
    BY <1>11 DEF PipeClose, TypeOK, Closing, End, Wakeup, Woken, Reading, Writing
  <2>3. /\ pc[p] = Closing[e] /\ fds[e] = {}
        /\ \A x \in End : x # e => pc[p] # Closing[x]
        /\ \A q \in Proc : pc[q] = Closing[e] => q = p
    BY <1>11 DEF PipeClose, CloseInv, Closing, End
  <2> QED BY <2>1, <2>2, <2>3 DEF CloseInv
<1>12. ASSUME NEW p \in Proc, NEW e \in End, Close(p, e) PROVE CloseInv'
  BY <1>12 DEF TypeOK, CloseInv, Closing, Goto, Reading, Writing, ring, procs,
     End, Close
<1>13. ASSUME NEW p \in Proc, NEW c \in Proc, Fork(p, c) PROVE CloseInv'
  BY <1>13 DEF TypeOK, CloseInv, Closing, Goto, Reading, Writing, ring, procs,
     End, Fork
<1>14. ASSUME NEW p \in Proc, Kill(p) PROVE CloseInv'
  BY <1>14 DEF TypeOK, CloseInv, Closing, Goto, Reading, Writing, ring, procs,
     End, Kill, Woken
<1>15. ASSUME NEW p \in Proc, Exit(p) \/ Gone(p) PROVE CloseInv'
  BY <1>15 DEF TypeOK, CloseInv, Closing, Goto, Reading, Writing, ring, procs,
     End, Exit, Gone
<1>16. CASE UNCHANGED vars
  BY <1>16 DEF TypeOK, CloseInv, Closing, Goto, Reading, Writing, ring, procs,
     End, vars
<1> QED BY <1>1, <1>2, <1>3, <1>4, <1>5, <1>6, <1>7, <1>8, <1>9, <1>10,
     <1>11, <1>12, <1>13, <1>14, <1>15, <1>16 DEF Next, Step

\* The page goes with the second end.
LEMMA FreedStep ==
  ASSUME TypeOK, FreedInv, [Next]_vars
  PROVE  FreedInv'
<1>1. ASSUME NEW p \in Proc, Read(p) \/ Write(p) PROVE FreedInv'
  BY <1>1 DEF TypeOK, FreedInv, Goto, ring, procs, End, Read, Write, Call
<1>2. ASSUME NEW p \in Proc, ReadLock(p) \/ WriteLock(p) \/ ReadSleep(p) \/ WriteSleep(p)
      PROVE  FreedInv'
  BY <1>2 DEF TypeOK, FreedInv, Goto, ring, procs, End, ReadLock, WriteLock,
     Lock, ReadSleep, WriteSleep, Sleep
<1>3. ASSUME NEW p \in Proc, ReadTest(p) PROVE FreedInv'
  BY <1>3 DEF TypeOK, FreedInv, Goto, ring, procs, End, ReadTest
<1>4. ASSUME NEW p \in Proc, ReadCopy(p) \/ \E b \in Byte : WriteCopy(p, b) PROVE FreedInv'
  BY <1>4 DEF TypeOK, FreedInv, Goto, ring, procs, End, ReadCopy, WriteCopy
<1>5. ASSUME NEW p \in Proc, ReadReturn(p) PROVE FreedInv'
  BY <1>5 DEF TypeOK, FreedInv, Goto, ring, procs, End, ReadReturn, Wakeup,
     Woken
<1>6. ASSUME NEW p \in Proc, WriteReturn(p) PROVE FreedInv'
  BY <1>6 DEF TypeOK, FreedInv, Goto, ring, procs, End, WriteReturn, Wakeup,
     Woken
<1>7. ASSUME NEW p \in Proc, WriteFull(p) PROVE FreedInv'
  BY <1>7 DEF TypeOK, FreedInv, Goto, ring, procs, End, WriteFull, Wakeup,
     Woken
<1>8. ASSUME NEW p \in Proc, NEW e \in End, PipeClose(p, e) PROVE FreedInv'
  BY <1>8 DEF TypeOK, FreedInv, Goto, ring, procs, End, PipeClose, Wakeup,
     Woken, Closing
<1>9. ASSUME NEW p \in Proc, NEW e \in End, Close(p, e) PROVE FreedInv'
  BY <1>9 DEF TypeOK, FreedInv, Goto, ring, procs, End, Close, Closing
<1>10. ASSUME NEW p \in Proc, NEW c \in Proc, Fork(p, c) PROVE FreedInv'
  BY <1>10 DEF TypeOK, FreedInv, Goto, ring, procs, End, Fork
<1>11. ASSUME NEW p \in Proc, Kill(p) PROVE FreedInv'
  BY <1>11 DEF TypeOK, FreedInv, Goto, ring, procs, End, Kill, Woken
<1>12. ASSUME NEW p \in Proc, Exit(p) \/ Gone(p) PROVE FreedInv'
  BY <1>12 DEF TypeOK, FreedInv, Goto, ring, procs, End, Exit, Gone
<1>13. CASE UNCHANGED vars
  BY <1>13 DEF TypeOK, FreedInv, Goto, ring, procs, End, vars
<1> QED BY <1>1, <1>2, <1>3, <1>4, <1>5, <1>6, <1>7, <1>8, <1>9, <1>10,
     <1>11, <1>12, <1>13 DEF Next, Step

\* A test leads to sleep under the lock that every waker holds.
LEMMA SleepStep ==
  ASSUME IInv, [Next]_vars
  PROVE  SleepInv'
<1>1. ASSUME NEW p \in Proc, Read(p) PROVE SleepInv'
  BY <1>1, NameAssumption DEF IInv, TypeOK, LockInv, FdInv, CloseInv, Holding,
     SleepInv, Empty, Full, Goto, Reading, Writing, ring, procs, End, Read,
     Call
<1>2. ASSUME NEW p \in Proc, Write(p) PROVE SleepInv'
  BY <1>2, NameAssumption DEF IInv, TypeOK, LockInv, FdInv, CloseInv, Holding,
     SleepInv, Empty, Full, Goto, Reading, Writing, ring, procs, End, Write,
     Call
<1>3. ASSUME NEW p \in Proc, ReadLock(p) PROVE SleepInv'
  BY <1>3, NameAssumption DEF IInv, TypeOK, LockInv, FdInv, CloseInv, Holding,
     SleepInv, Empty, Full, Goto, Reading, Writing, ring, procs, End,
     ReadLock, Lock
<1>4. ASSUME NEW p \in Proc, WriteLock(p) PROVE SleepInv'
  BY <1>4, NameAssumption DEF IInv, TypeOK, LockInv, FdInv, CloseInv, Holding,
     SleepInv, Empty, Full, Goto, Reading, Writing, ring, procs, End,
     WriteLock, Lock
<1>5. ASSUME NEW p \in Proc, ReadSleep(p) PROVE SleepInv'
  BY <1>5, NameAssumption DEF IInv, TypeOK, LockInv, FdInv, CloseInv, Holding,
     SleepInv, Empty, Full, Goto, Reading, Writing, ring, procs, End,
     ReadSleep, Sleep
<1>6. ASSUME NEW p \in Proc, WriteSleep(p) PROVE SleepInv'
  BY <1>6, NameAssumption DEF IInv, TypeOK, LockInv, FdInv, CloseInv, Holding,
     SleepInv, Empty, Full, Goto, Reading, Writing, ring, procs, End,
     WriteSleep, Sleep
<1>7. ASSUME NEW p \in Proc, ReadTest(p) PROVE SleepInv'
  <2>1. /\ pc'[p] \in {"r_copy", "user", "r_sleep"}
        /\ pc' = [pc EXCEPT ![p] = pc'[p]]
        /\ pc'[p] = "r_sleep" => Empty /\ open["w"]
    BY <1>7 DEF ReadTest, Goto, IInv, TypeOK
  <2>2. UNCHANGED <<nread, nwrite, open, owed>> /\ pc[p] = "r_test"
    BY <1>7 DEF ReadTest, ring, procs
  <2> QED BY <2>1, <2>2 DEF IInv, TypeOK, SleepInv, Empty, Full
<1>8. ASSUME NEW p \in Proc, ReadCopy(p) \/ \E b \in Byte : WriteCopy(p, b) PROVE SleepInv'
  BY <1>8, NameAssumption DEF IInv, TypeOK, LockInv, FdInv, CloseInv, Holding,
     SleepInv, Empty, Full, Goto, Reading, Writing, ring, procs, End,
     ReadCopy, WriteCopy
<1>9. ASSUME NEW p \in Proc, ReadReturn(p) PROVE SleepInv'
  BY <1>9, NameAssumption DEF IInv, TypeOK, LockInv, FdInv, CloseInv, Holding,
     SleepInv, Empty, Full, Goto, Reading, Writing, ring, procs, End,
     ReadReturn, Wakeup, Woken
<1>10. ASSUME NEW p \in Proc, WriteReturn(p) PROVE SleepInv'
  BY <1>10, NameAssumption DEF IInv, TypeOK, LockInv, FdInv, CloseInv,
     Holding, SleepInv, Empty, Full, Goto, Reading, Writing, ring, procs, End,
     WriteReturn, Wakeup, Woken
<1>11. ASSUME NEW p \in Proc, WriteFull(p) PROVE SleepInv'
  BY <1>11, NameAssumption DEF IInv, TypeOK, LockInv, FdInv, CloseInv,
     Holding, SleepInv, Empty, Full, Goto, Reading, Writing, ring, procs, End,
     WriteFull, Wakeup, Woken
<1>12. ASSUME NEW p \in Proc, NEW e \in End, PipeClose(p, e) PROVE SleepInv'
  BY <1>12, NameAssumption DEF IInv, TypeOK, LockInv, FdInv, CloseInv,
     Holding, SleepInv, Empty, Full, Goto, Reading, Writing, ring, procs, End,
     PipeClose, Wakeup, Woken, Closing
<1>13. ASSUME NEW p \in Proc, NEW e \in End, Close(p, e) PROVE SleepInv'
  <2>1. /\ pc'[p] \in {"user", "r_close", "w_close"}
        /\ pc' = [pc EXCEPT ![p] = pc'[p]]
    BY <1>13 DEF Close, Goto, Closing, End, IInv, TypeOK
  <2>2. UNCHANGED <<nread, nwrite, open, owed>> /\ pc[p] = "user"
    BY <1>13 DEF Close, ring, procs
  <2> QED BY <2>1, <2>2 DEF IInv, TypeOK, SleepInv, Empty, Full
<1>14. ASSUME NEW p \in Proc, NEW c \in Proc, Fork(p, c) PROVE SleepInv'
  BY <1>14, NameAssumption DEF IInv, TypeOK, LockInv, FdInv, CloseInv,
     Holding, SleepInv, Empty, Full, Goto, Reading, Writing, ring, procs, End,
     Fork
<1>15. ASSUME NEW p \in Proc, Kill(p) PROVE SleepInv'
  BY <1>15, NameAssumption DEF IInv, TypeOK, LockInv, FdInv, CloseInv,
     Holding, SleepInv, Empty, Full, Goto, Reading, Writing, ring, procs, End,
     Kill, Woken
<1>16. ASSUME NEW p \in Proc, Exit(p) PROVE SleepInv'
  BY <1>16, NameAssumption DEF IInv, TypeOK, LockInv, FdInv, CloseInv,
     Holding, SleepInv, Empty, Full, Goto, Reading, Writing, ring, procs, End,
     Exit
<1>17. ASSUME NEW p \in Proc, Gone(p) PROVE SleepInv'
  BY <1>17, NameAssumption DEF IInv, TypeOK, LockInv, FdInv, CloseInv,
     Holding, SleepInv, Empty, Full, Goto, Reading, Writing, ring, procs, End,
     Gone
<1>18. CASE UNCHANGED vars
  BY <1>18 DEF IInv, TypeOK, LockInv, FdInv, CloseInv, Holding, SleepInv,
     Empty, Full, Goto, Reading, Writing, ring, procs, End, vars
<1> QED BY <1>1, <1>2, <1>3, <1>4, <1>5, <1>6, <1>7, <1>8, <1>9, <1>10,
     <1>11, <1>12, <1>13, <1>14, <1>15, <1>16, <1>17, <1>18 DEF Next, Step

\* While the reader holds the lock nobody writes, and nobody closes.
LEMMA EofStep ==
  ASSUME IInv, [Next]_vars
  PROVE  EofInv'
<1>1. ASSUME NEW p \in Proc, Read(p) \/ Write(p) PROVE EofInv'
  BY <1>1, NameAssumption DEF IInv, TypeOK, LockInv, Holding, EofInv, Empty,
     Goto, Reading, Writing, ring, procs, End, Read, Write, Call
<1>2. ASSUME NEW p \in Proc, ReadLock(p) \/ WriteLock(p) \/ ReadSleep(p) \/ WriteSleep(p)
      PROVE  EofInv'
  BY <1>2, NameAssumption DEF IInv, TypeOK, LockInv, Holding, EofInv, Empty,
     Goto, Reading, Writing, ring, procs, End, ReadLock, WriteLock, Lock,
     ReadSleep, WriteSleep, Sleep
<1>3. ASSUME NEW p \in Proc, ReadTest(p) PROVE EofInv'
  BY <1>3, NameAssumption DEF IInv, TypeOK, LockInv, Holding, EofInv, Empty,
     Goto, Reading, Writing, ring, procs, End, ReadTest
<1>4. ASSUME NEW p \in Proc, ReadCopy(p) \/ \E b \in Byte : WriteCopy(p, b) PROVE EofInv'
  BY <1>4, NameAssumption DEF IInv, TypeOK, LockInv, Holding, EofInv, Empty,
     Goto, Reading, Writing, ring, procs, End, ReadCopy, WriteCopy
<1>5. ASSUME NEW p \in Proc, ReadReturn(p) PROVE EofInv'
  BY <1>5, NameAssumption DEF IInv, TypeOK, LockInv, Holding, EofInv, Empty,
     Goto, Reading, Writing, ring, procs, End, ReadReturn, Wakeup, Woken
<1>6. ASSUME NEW p \in Proc, WriteReturn(p) PROVE EofInv'
  BY <1>6, NameAssumption DEF IInv, TypeOK, LockInv, Holding, EofInv, Empty,
     Goto, Reading, Writing, ring, procs, End, WriteReturn, Wakeup, Woken
<1>7. ASSUME NEW p \in Proc, WriteFull(p) PROVE EofInv'
  BY <1>7, NameAssumption DEF IInv, TypeOK, LockInv, Holding, EofInv, Empty,
     Goto, Reading, Writing, ring, procs, End, WriteFull, Wakeup, Woken
<1>8. ASSUME NEW p \in Proc, NEW e \in End, PipeClose(p, e) PROVE EofInv'
  BY <1>8, NameAssumption DEF IInv, TypeOK, LockInv, Holding, EofInv, Empty,
     Goto, Reading, Writing, ring, procs, End, PipeClose, Wakeup, Woken,
     Closing
<1>9. ASSUME NEW p \in Proc, NEW e \in End, Close(p, e) PROVE EofInv'
  BY <1>9, NameAssumption DEF IInv, TypeOK, LockInv, Holding, EofInv, Empty,
     Goto, Reading, Writing, ring, procs, End, Close, Closing
<1>10. ASSUME NEW p \in Proc, NEW c \in Proc, Fork(p, c) PROVE EofInv'
  BY <1>10, NameAssumption DEF IInv, TypeOK, LockInv, Holding, EofInv, Empty,
     Goto, Reading, Writing, ring, procs, End, Fork
<1>11. ASSUME NEW p \in Proc, Kill(p) PROVE EofInv'
  BY <1>11, NameAssumption DEF IInv, TypeOK, LockInv, Holding, EofInv, Empty,
     Goto, Reading, Writing, ring, procs, End, Kill, Woken
<1>12. ASSUME NEW p \in Proc, Exit(p) \/ Gone(p) PROVE EofInv'
  BY <1>12, NameAssumption DEF IInv, TypeOK, LockInv, Holding, EofInv, Empty,
     Goto, Reading, Writing, ring, procs, End, Exit, Gone
<1>13. CASE UNCHANGED vars
  BY <1>13 DEF IInv, TypeOK, LockInv, Holding, EofInv, Empty, Goto, Reading,
     Writing, ring, procs, End, vars
<1> QED BY <1>1, <1>2, <1>3, <1>4, <1>5, <1>6, <1>7, <1>8, <1>9, <1>10,
     <1>11, <1>12, <1>13 DEF Next, Step

\* A new pipe is empty, and one process has it.
LEMMA InitInv ==
  ASSUME Init
  PROVE  IInv
<1>1. PICK creator \in Proc : /\ fds = [e \in End |-> {creator}]
                              /\ pc = [p \in Proc |-> IF p = creator THEN "user" ELSE "unborn"]
  BY DEF Init
<1>2. TypeOK
  <2>1. nread \in 0..(UintSize - 1) /\ nwrite \in 0..(UintSize - 1) /\ Used = 0
    BY SizeAssumption, GapIs DEF Init, Used
  <2>2. pc \in [Proc -> Reading \union Writing \union
                          {"user", "unborn", "gone", "r_close", "w_close"}]
    BY <1>1
  <2>3. /\ open \in [End -> BOOLEAN] /\ freed \in BOOLEAN
        /\ fds \in [End -> SUBSET Proc]
    BY <1>1 DEF Init
  <2> QED BY <2>1, <2>2, <2>3, SizeAssumption DEF Init, TypeOK
<1>3. LockInv /\ FdInv /\ EofInv /\ SleepInv
  BY <1>1, NameAssumption DEF Init, LockInv, FdInv, EofInv, SleepInv, Holding, Reading, Writing
<1>4. CloseInv /\ FreedInv
  BY <1>1 DEF Init, CloseInv, FreedInv, Closing, End
<1> QED BY <1>2, <1>3, <1>4 DEF IInv

\* Every reachable state is as IInv says.
THEOREM InvariantHolds == Spec => []IInv
<1>1. Init => IInv
  BY InitInv
<1>2. IInv /\ [Next]_vars => IInv'
  BY TypeStep, LockStep, FdStep, CloseStep, FreedStep, SleepStep, EofStep DEF IInv
<1> QED BY <1>1, <1>2, PTL DEF Spec

\* The counters stay in range, and never more than PIPESIZE bytes apart.
THEOREM TypeCorrect == Spec => []TypeOK
<1>1. IInv => TypeOK
  BY DEF IInv
<1> QED BY <1>1, InvariantHolds, PTL

\* Whenever p->lock is free, whoever is asleep has a cause (pipe.c:88, 93, 116).
THEOREM NobodySleepsInVain == Spec => []SleepersHaveCause
<1>1. IInv => SleepersHaveCause
  <2> SUFFICES ASSUME IInv, lock = NoProc PROVE SleepersHaveCause
    BY DEF SleepersHaveCause
  <2>1. \A q \in Proc : pc[q] # "w_copy" /\ pc[q] # "r_copy"
    BY NameAssumption DEF IInv, LockInv, Holding
  <2> QED BY <2>1 DEF IInv, SleepInv, SleepersHaveCause
<1> QED BY <1>1, InvariantHolds, PTL

\* The page is freed when nobody can reach it (pipe.c:69-73).
THEOREM FreedOnce == Spec => []NoUseAfterFree
<1>1. IInv => NoUseAfterFree
  <2> SUFFICES ASSUME IInv, freed, NEW p \in Proc
               PROVE  ~InPipe(p) /\ \A e \in End : p \notin fds[e]
    BY DEF NoUseAfterFree
  <2>1. \A e \in End : ~open[e]
    BY DEF IInv, FreedInv
  <2>2. \A e \in End : fds[e] = {} /\ pc[p] # Closing[e]
    BY <2>1 DEF IInv, CloseInv
  <2>3. pc[p] \notin Reading /\ pc[p] \notin Writing
    BY <2>2 DEF IInv, FdInv, End
  <2> QED BY <2>2, <2>3 DEF InPipe
<1> QED BY <1>1, InvariantHolds, PTL

\* An end is closed by its last holder, once (pipe.c:58-74, file.c:55-75).
THEOREM ClosedByLast == Spec => []OpenWhileHeld
<1>1. IInv => OpenWhileHeld
  <2> SUFFICES ASSUME IInv, NEW e \in End
               PROVE  Cardinality({p \in Proc : pc[p] = Closing[e]}) <= 1
    BY DEF OpenWhileHeld, IInv, CloseInv
  <2> DEFINE S == {p \in Proc : pc[p] = Closing[e]}
  <2>1. CASE S = {}
    BY <2>1, FS_EmptySet
  <2>2. ASSUME NEW p \in S PROVE Cardinality(S) <= 1
    <3>1. S = {p}
      BY <2>2 DEF IInv, CloseInv
    <3>2. Cardinality({p}) = 1
      BY FS_Singleton
    <3> QED BY <3>1, <3>2
  <2> QED BY <2>1, <2>2
<1> QED BY <1>1, InvariantHolds, PTL

(***************************************************************************)
(* A pipe is a queue of bytes.                                             *)
(***************************************************************************)

\* The queue is what lies in the ring between the two counters.
QueueSound == /\ Queue \in Seq(Byte) /\ Len(Queue) = Used
              /\ \A k \in 1..Used : Queue[k] = data[Slot(nread, k)]

\* The ring holds a sequence of bytes ...
LEMMA QueueIs ==
  ASSUME TypeOK
  PROVE  QueueSound
<1>1. Used \in 0..PIPESIZE /\ Used \in Nat
  BY Counted, SizeAssumption
<1>2. ASSUME NEW k \in 1..Used PROVE Slot(nread, k) \in 0..(PIPESIZE - 1)
  <2>1. nread + k - 1 \in Nat
    BY <1>1, SizeAssumption DEF TypeOK
  <2>2. UintSize \in Nat \ {0} /\ PIPESIZE \in Nat \ {0}
    BY SizeAssumption
  <2>3. (nread + k - 1) % UintSize \in 0..(UintSize - 1)
    BY <2>1, <2>2, Division
  <2>4. (nread + k - 1) % UintSize \in Nat
    BY <2>2, <2>3
  <2> QED BY <2>2, <2>4, Division DEF Slot
<1>3. Queue = [k \in 1..Used |-> data[Slot(nread, k)]]
  BY DEF Queue, Slot
<1>4. \A k \in 1..Used : data[Slot(nread, k)] \in Byte
  BY <1>2 DEF TypeOK
<1> QED BY <1>1, <1>3, <1>4 DEF QueueSound

\* ... in the next state as well.
LEMMA QueueIsNext == TypeOK' => QueueSound'
<1>1. TypeOK => QueueSound
  BY QueueIs
<1> QED BY <1>1, PTL

\* The first byte is where nread points, ...
LEMMA FirstSlot ==
  ASSUME NEW r \in 0..(UintSize - 1)
  PROVE  Slot(r, 1) = r % PIPESIZE
<1>1. r + 1 - 1 = r /\ r \in 0..(2 * UintSize - 1)
  BY SizeAssumption
<1>2. r % UintSize = r
  BY <1>1, Wrap, SizeAssumption
<1> QED BY <1>1, <1>2 DEF Slot

\* ... the others follow ...
LEMMA NextSlot ==
  ASSUME NEW r \in 0..(UintSize - 1), NEW k \in 1..(PIPESIZE - 1)
  PROVE  Slot((r + 1) % UintSize, k) = Slot(r, k + 1)
<1>1. UintSize \in Nat /\ PIPESIZE \in Nat /\ PIPESIZE < UintSize
  BY SizeAssumption
<1>2. PICK x \in 0..(2 * UintSize - 1) : x = r + k /\ x = r + (k + 1) - 1
  BY <1>1
<1>3. x % UintSize = IF x < UintSize THEN x ELSE x - UintSize
  BY Wrap
<1>4. (r + 1) % UintSize = IF r + 1 = UintSize THEN 0 ELSE r + 1
  BY NextIs
<1>5. CASE r + 1 = UintSize
  <2>1. PICK y \in 0..(2 * UintSize - 1) : y = 0 + k - 1 /\ y < UintSize /\ y = x - UintSize
    BY <1>1, <1>2, <1>5
  <2>2. y % UintSize = y
    BY <2>1, Wrap
  <2>3. x % UintSize = y
    BY <1>1, <1>2, <1>3, <1>5, <2>1
  <2> QED BY <1>2, <1>4, <1>5, <2>1, <2>2, <2>3 DEF Slot
<1>6. CASE r + 1 # UintSize
  <2>1. (r + 1) + k - 1 = r + (k + 1) - 1
    BY <1>1
  <2> QED BY <1>4, <1>6, <2>1 DEF Slot
<1> QED BY <1>5, <1>6

\* ... and the place after the last one is where nwrite points.
LEMMA LastSlot ==
  ASSUME TypeOK
  PROVE  Slot(nread, Used + 1) = nwrite % PIPESIZE
<1>1. nread \in 0..(UintSize - 1) /\ nwrite \in 0..(UintSize - 1) /\ UintSize \in Nat
  BY SizeAssumption DEF TypeOK
<1>2. Used = IF nwrite >= nread THEN nwrite - nread ELSE nwrite + UintSize - nread
  BY <1>1, GapIs DEF Used
<1>3. PICK x \in 0..(2 * UintSize - 1) : x = nread + (Used + 1) - 1
  BY <1>1, <1>2
<1>4. x % UintSize = IF x < UintSize THEN x ELSE x - UintSize
  BY Wrap
<1>5. x % UintSize = nwrite
  BY <1>1, <1>2, <1>3, <1>4
<1> QED BY <1>3, <1>5 DEF Slot

\* A byte read is the head of the queue.
LEMMA ReadGets ==
  ASSUME TypeOK, TypeOK', NEW p \in Proc, ReadCopy(p)
  PROVE  Abstract!Get
<1>1. nread \in 0..(UintSize - 1)
  BY DEF TypeOK
<1>2. Used \in 1..PIPESIZE /\ Used' = Used - 1
  BY CountedRead
<1>3. /\ Queue \in Seq(Byte) /\ Len(Queue) = Used
      /\ \A k \in 1..Used : Queue[k] = data[Slot(nread, k)]
  BY QueueIs DEF QueueSound
<1>4. /\ Queue' \in Seq(Byte) /\ Len(Queue') = Used'
      /\ \A k \in 1..Used' : Queue'[k] = data'[Slot(nread', k)]
  BY QueueIsNext DEF QueueSound
<1>5. /\ answer' = data[nread % PIPESIZE]
      /\ nread' = (nread + 1) % UintSize
      /\ data' = data /\ open' = open
  BY DEF ReadCopy
<1>6. Queue # <<>> /\ answer' = Head(Queue)
  <2>1. Queue # <<>> /\ Head(Queue) = Queue[1] /\ 1 \in 1..Used
    BY <1>2, <1>3, SizeAssumption
  <2> QED BY <1>1, <1>3, <1>5, <2>1, FirstSlot
<1>7. Queue' = Tail(Queue)
  <2>1. Tail(Queue) \in Seq(Byte) /\ Len(Tail(Queue)) = Used'
    BY <1>2, <1>3, <1>6, SizeAssumption
  <2>2. ASSUME NEW k \in 1..Used' PROVE Queue'[k] = Tail(Queue)[k]
    <3>1. k \in 1..(PIPESIZE - 1) /\ k + 1 \in 1..Used
      BY <1>2, SizeAssumption
    <3>2. Queue'[k] = data[Slot(nread, k + 1)]
      BY <1>1, <1>4, <1>5, <3>1, NextSlot
    <3>3. Tail(Queue)[k] = Queue[k + 1]
      BY <1>3, <1>6, <2>1, HeadTailProperties
    <3> QED BY <1>3, <3>1, <3>2, <3>3
  <2> QED BY <1>4, <2>1, <2>2, SeqEqual
<1> QED BY <1>5, <1>6, <1>7 DEF Abstract!Get

\* A byte written becomes the last of the queue and disturbs no other.
LEMMA WritePuts ==
  ASSUME IInv, TypeOK', NEW p \in Proc, NEW b \in Byte, WriteCopy(p, b)
  PROVE  Abstract!Put(b)
<1>0. TypeOK
  BY DEF IInv
<1>1. nread \in 0..(UintSize - 1) /\ nwrite \in Nat
  BY <1>0, SizeAssumption DEF TypeOK
<1>2. Used \in 0..(PIPESIZE - 1) /\ Used' = Used + 1 /\ Used \in Nat
  BY <1>0, CountedWrite, SizeAssumption
<1>3. /\ Queue \in Seq(Byte) /\ Len(Queue) = Used
      /\ \A k \in 1..Used : Queue[k] = data[Slot(nread, k)]
  BY <1>0, QueueIs DEF QueueSound
<1>4. /\ Queue' \in Seq(Byte) /\ Len(Queue') = Used'
      /\ \A k \in 1..Used' : Queue'[k] = data'[Slot(nread', k)]
  BY QueueIsNext DEF QueueSound
<1>5. /\ data' = [data EXCEPT ![nwrite % PIPESIZE] = b]
      /\ nread' = nread /\ open' = open /\ answer' = answer
  BY DEF WriteCopy
<1>6. data \in [0..(PIPESIZE - 1) -> Byte] /\ nwrite % PIPESIZE \in 0..(PIPESIZE - 1)
  BY <1>0, <1>1, Division, SizeAssumption DEF TypeOK
<1>7. Slot(nread, Used + 1) = nwrite % PIPESIZE
  BY <1>0, LastSlot
<1>8. Queue' = Append(Queue, b)
  <2>1. Append(Queue, b) \in Seq(Byte) /\ Len(Append(Queue, b)) = Used + 1
    BY <1>3
  <2>2. ASSUME NEW k \in 1..(Used + 1) PROVE Queue'[k] = Append(Queue, b)[k]
    <3>1. Queue'[k] = data'[Slot(nread, k)]
      BY <1>2, <1>4, <1>5
    <3>2. CASE k = Used + 1
      <4>1. Append(Queue, b)[k] = b
        BY <1>3, <3>2
      <4> QED BY <1>5, <1>6, <1>7, <3>1, <3>2, <4>1
    <3>3. CASE k # Used + 1
      <4>1. k \in 1..Used
        BY <1>2, <3>3
      <4>2. Append(Queue, b)[k] = data[Slot(nread, k)]
        BY <1>3, <4>1
      <4>3. Slot(nread, k) # nwrite % PIPESIZE
        <5>1. k \in 1..PIPESIZE /\ Used + 1 \in 1..PIPESIZE
          BY <1>2, <4>1, SizeAssumption
        <5> QED BY <1>1, <1>7, <3>3, <5>1, SlotsApart
      <4>4. data'[Slot(nread, k)] = data[Slot(nread, k)]
        BY <1>5, <1>6, <4>3
      <4> QED BY <3>1, <4>2, <4>4
    <3> QED BY <3>2, <3>3
  <2> QED BY <1>2, <1>4, <2>1, <2>2, SeqEqual
<1>9. open["w"]
  <2>1. p \in fds["w"]
    BY DEF IInv, FdInv, WriteCopy, Writing
  <2> QED BY <2>1 DEF IInv, CloseInv, End
<1>10. Len(Queue) < PIPESIZE
  BY <1>2, <1>3, SizeAssumption
<1> QED BY <1>5, <1>8, <1>9, <1>10 DEF Abstract!Put

\* A read ends, with "end of file" only when the queue has ended.
LEMMA ReturnAnswers ==
  ASSUME IInv, NEW p \in Proc, ReadReturn(p)
  PROVE  Abstract!EndOfFile \/ Abstract!Taken
<1>1. UNCHANGED <<Queue, open["w"]>>
  BY DEF ReadReturn, ring, Queue, Used
<1>2. CASE i[p] = 0 /\ n[p] > 0
  <2>1. Empty /\ answer' = Eof
    BY <1>2 DEF ReadReturn, IInv, TypeOK
  <2>2. ~open["w"]
    BY <1>2, <2>1 DEF IInv, EofInv, ReadReturn
  <2>3. Queue = <<>>
    BY <2>1, Counted, QueueIs DEF IInv, QueueSound
  <2> QED BY <1>1, <2>1, <2>2, <2>3 DEF Abstract!EndOfFile
<1>3. CASE ~(i[p] = 0 /\ n[p] > 0)
  BY <1>1, <1>3 DEF ReadReturn, Abstract!Taken
<1> QED BY <1>2, <1>3

\* Every other step leaves the queue alone or closes its writing end.
LEMMA StepImplements ==
  ASSUME IInv, IInv', [Next]_vars
  PROVE  [Abstract!Next]_<<Queue, open["w"], answer>>
<1>1. TypeOK /\ TypeOK'
  BY DEF IInv
<1>2. ASSUME UNCHANGED <<ring, open, answer>> PROVE UNCHANGED <<Queue, open["w"], answer>>
  BY <1>2 DEF ring, Queue, Used
<1>3. ASSUME NEW p \in Proc, ReadCopy(p) PROVE Abstract!Next
  BY <1>1, <1>3, ReadGets DEF Abstract!Next
<1>4. ASSUME NEW p \in Proc, NEW b \in Byte, WriteCopy(p, b) PROVE Abstract!Next
  BY <1>1, <1>4, WritePuts DEF Abstract!Next
<1>5. ASSUME NEW p \in Proc, ReadReturn(p)
      PROVE  Abstract!Next
  BY <1>5, ReturnAnswers DEF Abstract!Next
<1>6. ASSUME NEW p \in Proc, NEW e \in End, PipeClose(p, e)
      PROVE  Abstract!Next \/ UNCHANGED <<Queue, open["w"], answer>>
  <2>1. UNCHANGED <<Queue, answer>> /\ open' = [open EXCEPT ![e] = FALSE]
    BY <1>6 DEF PipeClose, ring, Queue, Used
  <2>2. open'["w"] = open["w"] \/ open'["w"] = FALSE
    BY <1>1, <2>1 DEF TypeOK, End
  <2> QED BY <2>1, <2>2 DEF Abstract!Next, Abstract!CloseWrite
<1>7. \/ \E p \in Proc : \/ ReadCopy(p) \/ ReadReturn(p)
                         \/ \E b \in Byte : WriteCopy(p, b)
                         \/ \E e \in End : PipeClose(p, e)
      \/ UNCHANGED <<ring, open, answer>>
  <2>1. ASSUME NEW p \in Proc, Read(p) \/ Write(p)
        PROVE  UNCHANGED <<ring, open, answer>>
    BY <2>1 DEF Read, Write, Call
  <2>2. ASSUME NEW p \in Proc, ReadLock(p) \/ WriteLock(p) \/ ReadSleep(p) \/ WriteSleep(p)
        PROVE  UNCHANGED <<ring, open, answer>>
    BY <2>2 DEF ReadLock, WriteLock, Lock, ReadSleep, WriteSleep, Sleep
  <2>3. ASSUME NEW p \in Proc, ReadTest(p) \/ WriteFull(p) \/ WriteReturn(p)
        PROVE  UNCHANGED <<ring, open, answer>>
    BY <2>3 DEF ReadTest, WriteFull, WriteReturn
  <2>4. ASSUME NEW p \in Proc, NEW e \in End, NEW c \in Proc,
               Close(p, e) \/ Fork(p, c) \/ Kill(p) \/ Exit(p) \/ Gone(p)
        PROVE  UNCHANGED <<ring, open, answer>>
    BY <2>4 DEF Close, Fork, Kill, Exit, Gone
  <2> QED BY <2>1, <2>2, <2>3, <2>4 DEF Next, Step, vars, End
<1> QED BY <1>2, <1>3, <1>4, <1>5, <1>6, <1>7

\* Whatever PIPESIZE, and however often the counters wrap around, a pipe is a
\* bounded queue whose readers see the end of file exactly when it has ended.
THEOREM PipeImplementsQueue == Spec => ImplementsByteQueue
<1>1. Init => Abstract!Init
  <2> SUFFICES ASSUME Init PROVE Abstract!Init
    OBVIOUS
  <2>1. TypeOK /\ Empty
    BY InitInv DEF IInv, Init, Empty
  <2>2. Queue = <<>>
    BY <2>1, Counted, QueueIs DEF QueueSound
  <2> QED BY <2>2 DEF Init, Abstract!Init, End
<1>2. IInv /\ IInv' /\ [Next]_vars => [Abstract!Next]_<<Queue, open["w"], answer>>
  BY StepImplements
<1> QED BY <1>1, <1>2, InvariantHolds, PTL
       DEF Spec, ImplementsByteQueue, Abstract!Spec, Abstract!vars
=============================================================================
