---------------------------- MODULE KallocProofs ----------------------------
(***************************************************************************)
(* Proofs about Kalloc, for any number of frames, processes and entries.   *)
(***************************************************************************)
EXTENDS Kalloc, FiniteSetTheorems, SequenceTheorems, TLAPS

\* The entries in use have been written, each frame has one, and it names the
\* frame's owner; the pids of the others are nobody's.
ArrInv ==
    /\ \A i \in Entry : framearr[i] \in Frame => i < totalframes
    /\ \A i, j \in Entry : framearr[i] = framearr[j] /\ framearr[i] \in Frame => i = j
    /\ \A i \in Entry : framearr[i] \in Frame =>
           owner[framearr[i]] = IF use_lock THEN pidarr[i] ELSE Boot
    /\ use_lock => \A f \in Frame : owner[f] \notin {Free, Boot} =>
                       \E i \in Entry : framearr[i] = f

ListInv ==
    /\ \A i, j \in DOMAIN freelist : freelist[i] = freelist[j] => i = j
    /\ \A i \in DOMAIN freelist : freelist[i] \in Managed /\ owner[freelist[i]] = Free
    /\ \A f \in Managed : owner[f] = Free => \E i \in DOMAIN freelist : freelist[i] = f

\* Before kinit2() only the kernel is given frames, so few that kinit2() marks
\* all the entries that say so.
EarlyInv == ~use_lock =>
    /\ totalframes + Len(freelist) = SplitFrame - LowFrame
    /\ \A f \in Frame : owner[f] \in {Free, Boot}
    /\ \A f \in Frame \ Managed : owner[f] = Free

IInv == TypeOK /\ Isolated /\ ArrInv /\ ListInv /\ EarlyInv

(***************************************************************************)
(* Lists and arrays.                                                       *)
(***************************************************************************)

LEMMA FreeRangeIs ==
  ASSUME NEW first \in Nat, NEW past \in Nat, NEW list \in Seq(Frame),
         LowFrame <= first, first <= past, past <= TopFrame
  PROVE  /\ FreeRange(first, past, list) \in Seq(Frame)
         /\ Len(FreeRange(first, past, list)) = (past - first) + Len(list)
         /\ \A i \in 1..((past - first) + Len(list)) :
                FreeRange(first, past, list)[i] =
                    IF i <= past - first THEN past - i ELSE list[i - (past - first)]
<1> DEFINE new == [i \in 1..(past - first) |-> past - i]
<1>1. \A i \in 1..(past - first) : past - i \in Frame
  BY FrameAssumption DEF Frame
<1>2. new \in Seq(Frame) /\ Len(new) = past - first
  <2>1. past - first \in Nat
    OBVIOUS
  <2> QED BY <1>1, <2>1
<1> HIDE DEF new
<1>3. /\ new \o list \in Seq(Frame) /\ Len(new \o list) = Len(new) + Len(list)
      /\ \A i \in 1..(Len(new) + Len(list)) :
             (new \o list)[i] = IF i <= Len(new) THEN new[i] ELSE list[i - Len(new)]
  BY <1>2, ConcatProperties
<1>4. \A i \in 1..(past - first) : new[i] = past - i
  BY DEF new
<1>5. Len(list) \in Nat
  OBVIOUS
<1>6. FreeRange(first, past, list) = new \o list
  BY DEF FreeRange, new
<1> QED BY <1>2, <1>3, <1>4, <1>5, <1>6

LEMMA RemoveAtIs ==
  ASSUME NEW S, NEW s \in Seq(S), NEW k \in 1..Len(s)
  PROVE  /\ RemoveAt(s, k) \in Seq(S)
         /\ Len(RemoveAt(s, k)) = Len(s) - 1
         /\ \A i \in 1..(Len(s) - 1) : RemoveAt(s, k)[i] = IF i < k THEN s[i] ELSE s[i + 1]
<1> DEFINE a == SubSeq(s, 1, k - 1)
           b == SubSeq(s, k + 1, Len(s))
<1>0. Len(s) \in Nat /\ k \in Nat /\ 1 <= k /\ k <= Len(s) /\ \A i \in 1..Len(s) : s[i] \in S
  BY ElementOfSeq
<1>1. /\ a \in Seq(S) /\ Len(a) = k - 1
      /\ \A i \in 1..(k - 1) : a[i] = s[i]
  BY <1>0, SubSeqProperties
<1>2. /\ b \in Seq(S) /\ Len(b) = Len(s) - k
      /\ \A i \in 1..(Len(s) - k) : b[i] = s[k + i]
  BY <1>0, SubSeqProperties
<1> HIDE DEF a, b
<1>3. /\ a \o b \in Seq(S) /\ Len(a \o b) = Len(a) + Len(b)
      /\ \A i \in 1..(Len(a) + Len(b)) : (a \o b)[i] = IF i <= Len(a) THEN a[i] ELSE b[i - Len(a)]
  BY <1>1, <1>2, ConcatProperties
<1>4. RemoveAt(s, k) = a \o b
  BY DEF RemoveAt, a, b
<1>5. ASSUME NEW i \in 1..(Len(s) - 1)
      PROVE  (a \o b)[i] = IF i < k THEN s[i] ELSE s[i + 1]
  <2>1. CASE i < k
    BY <1>0, <1>1, <1>2, <1>3, <2>1
  <2>2. CASE ~(i < k)
    <3>1. i - (k - 1) \in 1..(Len(s) - k)
      BY <1>0, <2>2
    <3>2. b[i - (k - 1)] = s[k + (i - (k - 1))]
      BY <1>2, <3>1
    <3>3. k + (i - (k - 1)) = i + 1
      BY <1>0
    <3> QED BY <1>0, <1>1, <1>2, <1>3, <2>2, <3>1, <3>2, <3>3
  <2> QED BY <2>1, <2>2
<1>6. Len(a) + Len(b) = Len(s) - 1
  BY <1>0, <1>1, <1>2
<1> QED BY <1>3, <1>4, <1>5, <1>6

LEMMA ListShape ==
  ASSUME TypeOK
  PROVE  freelist \in Seq(Frame) /\ Len(freelist) \in Nat /\ DOMAIN freelist = 1..Len(freelist)
<1>1. freelist \in Seq(Frame)
  BY DEF TypeOK
<1> QED BY <1>1, LenProperties

\* findIndexinframeArr() finds the one entry of a frame.
LEMMA FirstIs ==
  ASSUME TypeOK, ArrInv, NEW i \in Entry, framearr[i] \in Frame
  PROVE  EntriesOf(framearr[i]) = {i} /\ FirstEntry(framearr[i]) = i
<1>1. EntriesOf(framearr[i]) = {i}
  BY DEF EntriesOf, ArrInv
<1>2. \A j \in EntriesOf(framearr[i]) : i <= j
  BY <1>1 DEF Entry
<1> QED BY <1>1, <1>2 DEF FirstEntry

\* getPidforFrame() tells which process has a frame.
LEMMA PidIs ==
  ASSUME TypeOK, ArrInv, use_lock, NEW f \in Frame, owner[f] \in Pid
  PROVE  GetPidForFrame(f) = owner[f]
<1>1. owner[f] \notin {Free, Boot}
  BY PidAssumption DEF Free, Boot
<1>2. PICK i \in Entry : framearr[i] = f
  BY <1>1 DEF ArrInv
<1>3. EntriesOf(f) = {i} /\ FirstEntry(f) = i
  BY <1>2, FirstIs
<1>4. pidarr[i] = owner[f]
  BY <1>2 DEF ArrInv
<1> QED BY <1>3, <1>4 DEF GetPidForFrame

(***************************************************************************)
(* Every step keeps IInv.                                                  *)
(***************************************************************************)

LEMMA InitInv == Init => IInv
<1> SUFFICES ASSUME Init PROVE IInv
  OBVIOUS
<1>1. <<>> \in Seq(Frame) /\ Len(<<>>) = 0
  OBVIOUS
<1>2. /\ freelist \in Seq(Frame) /\ Len(freelist) = SplitFrame - LowFrame
      /\ \A i \in 1..(SplitFrame - LowFrame) : freelist[i] = SplitFrame - i
  <2>1. freelist = FreeRange(LowFrame, SplitFrame, <<>>)
    BY DEF Init
  <2>2. /\ freelist \in Seq(Frame) /\ Len(freelist) = (SplitFrame - LowFrame) + Len(<<>>)
        /\ \A i \in 1..((SplitFrame - LowFrame) + Len(<<>>)) :
               freelist[i] = IF i <= SplitFrame - LowFrame THEN SplitFrame - i
                             ELSE <<>>[i - (SplitFrame - LowFrame)]
    <3>1. /\ LowFrame \in Nat /\ SplitFrame \in Nat
          /\ LowFrame <= LowFrame /\ LowFrame <= SplitFrame /\ SplitFrame <= TopFrame
      BY FrameAssumption
    <3> QED BY <1>1, <2>1, <3>1, FreeRangeIs, Zenon
  <2> QED BY <1>1, <2>2, FrameAssumption
<1>3. DOMAIN freelist = 1..(SplitFrame - LowFrame)
  BY <1>2
<1>4. 0 \notin Frame
  BY FrameAssumption DEF Frame
<1>5. TypeOK
  <2>1. totalframes \in 0..NENTRY
    BY TableAssumption DEF Init
  <2>2. /\ framearr \in [Entry -> Frame \union {None, 0}]
        /\ pidarr \in [Entry -> Pid \union {Kernel, None, 0}]
        /\ owner \in [Frame -> Pid \union {Kernel, Boot, Free}]
        /\ use_lock \in BOOLEAN /\ broken \in {"no", "no frame", "overrun"}
    BY DEF Init
  <2> QED BY <1>2, <2>1, <2>2 DEF TypeOK
<1>6. ListInv
  <2>1. \A i, j \in DOMAIN freelist : freelist[i] = freelist[j] => i = j
    BY <1>2, <1>3, FrameAssumption
  <2>2. \A i \in DOMAIN freelist : freelist[i] \in Managed
    BY <1>2, <1>3, FrameAssumption DEF Managed, Frame
  <2>3. ASSUME NEW f \in Managed PROVE \E i \in DOMAIN freelist : freelist[i] = f
    <3>1. SplitFrame - f \in DOMAIN freelist /\ SplitFrame - (SplitFrame - f) = f
      BY <1>3, FrameAssumption DEF Managed, Frame, Init
    <3> QED BY <1>2, <1>3, <3>1
  <2>4. \A i \in DOMAIN freelist : owner[freelist[i]] = Free
    BY <2>2 DEF Init, Managed
  <2> QED BY <2>1, <2>2, <2>3, <2>4 DEF ListInv
<1>7. Isolated
  BY PidAssumption DEF Init, Isolated, Free
<1>8. ArrInv
  BY <1>4 DEF Init, ArrInv
<1>9. EarlyInv
  BY <1>2, FrameAssumption DEF Init, EarlyInv, Managed
<1> QED BY <1>5, <1>6, <1>7, <1>8, <1>9 DEF IInv

LEMMA Kinit2Keeps ==
  ASSUME IInv, Kinit2
  PROVE  IInv'
<1> USE FrameAssumption, TableAssumption
<1>1. freelist \in Seq(Frame) /\ Len(freelist) \in Nat /\ DOMAIN freelist = 1..Len(freelist)
  BY ListShape DEF IInv
<1>2. ~use_lock /\ use_lock' = TRUE /\ owner' = owner /\ totalframes' = totalframes
  BY DEF Kinit2
<1> DEFINE d == TopFrame - SplitFrame
<1>3. /\ freelist' \in Seq(Frame) /\ Len(freelist') = d + Len(freelist)
      /\ \A i \in 1..(d + Len(freelist)) :
             freelist'[i] = IF i <= d THEN TopFrame - i ELSE freelist[i - d]
  <2>1. freelist' = FreeRange(SplitFrame, TopFrame, freelist)
    BY DEF Kinit2
  <2>2. /\ SplitFrame \in Nat /\ TopFrame \in Nat
        /\ LowFrame <= SplitFrame /\ SplitFrame <= TopFrame /\ TopFrame <= TopFrame
    OBVIOUS
  <2> QED BY <1>1, <2>1, <2>2, FreeRangeIs, Zenon DEF d
<1>4. DOMAIN freelist' = 1..(d + Len(freelist)) /\ d \in Nat
  BY <1>1, <1>3
<1>5. Managed = LowFrame..(SplitFrame - 1) /\ Managed' = Frame
  BY <1>2 DEF Managed, Frame
<1>6. \A f \in Frame : f \notin Managed => owner[f] = Free
  BY <1>2 DEF IInv, EarlyInv
<1>7. TypeOK'
  <2>1. /\ framearr' \in [Entry -> Frame \union {None, 0}]
        /\ pidarr' \in [Entry -> Pid \union {Kernel, None, 0}]
    BY DEF Kinit2, IInv, TypeOK
  <2> QED BY <1>2, <1>3, <2>1 DEF Kinit2, IInv, TypeOK
<1>8. Isolated'
  BY <1>2 DEF IInv, Isolated
<1>9. ArrInv'
  <2>1. totalframes <= NMARK /\ totalframes \in Nat
    <3>1. totalframes \in 0..NENTRY
      BY DEF IInv, TypeOK
    <3>2. totalframes + Len(freelist) = SplitFrame - LowFrame
      BY <1>2 DEF IInv, EarlyInv
    <3> QED BY <1>1, <3>1, <3>2
  <2>2. \A i \in Entry : framearr'[i] \notin Frame
    <3>1. \A i \in Entry : i >= NMARK => framearr[i] \notin Frame
      BY <2>1 DEF IInv, ArrInv, Entry
    <3>2. None \notin Frame
      BY DEF Frame, None
    <3>3. \A i \in Entry : framearr'[i] = IF i < NMARK THEN None ELSE framearr[i]
      BY DEF Kinit2
    <3> QED BY <3>1, <3>2, <3>3 DEF Entry
  <2> QED BY <1>2, <2>2 DEF ArrInv, IInv, EarlyInv
<1>10. ListInv'
  <2>1. \A i \in 1..Len(freelist) : freelist[i] < SplitFrame /\ freelist[i] \in Frame
    <3>1. \A i \in 1..Len(freelist) : freelist[i] \in Managed
      BY <1>1 DEF IInv, ListInv
    <3> QED BY <1>2, <3>1 DEF Managed
  <2>2. ASSUME NEW i \in DOMAIN freelist', NEW j \in DOMAIN freelist', freelist'[i] = freelist'[j]
        PROVE  i = j
    <3>1. CASE i <= d /\ j <= d
      BY <1>3, <1>4, <2>2, <3>1
    <3>2. CASE i > d /\ j > d
      <4>1. i - d \in DOMAIN freelist /\ j - d \in DOMAIN freelist
        BY <1>1, <1>4, <3>2
      <4>2. freelist[i - d] = freelist[j - d]
        BY <1>3, <1>4, <2>2, <3>2
      <4>3. i - d = j - d
        BY <4>1, <4>2 DEF IInv, ListInv
      <4> QED BY <1>4, <4>3
    <3>3. CASE i <= d /\ j > d
      <4>1. freelist[j - d] < SplitFrame
        BY <1>1, <1>4, <2>1, <3>3
      <4> QED BY <1>3, <1>4, <2>2, <3>3, <4>1
    <3>4. CASE i > d /\ j <= d
      <4>1. freelist[i - d] < SplitFrame
        BY <1>1, <1>4, <2>1, <3>4
      <4> QED BY <1>3, <1>4, <2>2, <3>4, <4>1
    <3> QED BY <1>4, <3>1, <3>2, <3>3, <3>4
  <2>3. ASSUME NEW i \in DOMAIN freelist'
        PROVE  freelist'[i] \in Frame /\ owner[freelist'[i]] = Free
    <3>1. CASE i <= d
      <4>1. freelist'[i] = TopFrame - i /\ TopFrame - i \in Frame /\ TopFrame - i \notin Managed
        BY <1>3, <1>4, <1>5, <3>1 DEF Frame
      <4> QED BY <1>6, <4>1
    <3>2. CASE i > d
      <4>1. i - d \in DOMAIN freelist /\ freelist'[i] = freelist[i - d]
        BY <1>1, <1>3, <1>4, <3>2
      <4> QED BY <1>1, <2>1, <4>1 DEF IInv, ListInv
    <3> QED BY <1>4, <3>1, <3>2
  <2>4. ASSUME NEW f \in Frame, owner[f] = Free
        PROVE  \E i \in DOMAIN freelist' : freelist'[i] = f
    <3>1. CASE f < SplitFrame
      <4>1. PICK k \in DOMAIN freelist : freelist[k] = f
        BY <1>5, <2>4, <3>1 DEF IInv, ListInv, Frame
      <4>2. k + d \in DOMAIN freelist' /\ freelist'[k + d] = f
        <5>1. k + d \in 1..(d + Len(freelist)) /\ k + d > d /\ (k + d) - d = k
          BY <1>1, <1>4
        <5> QED BY <1>3, <1>4, <4>1, <5>1
      <4> QED BY <4>2
    <3>2. CASE f >= SplitFrame
      <4>1. TopFrame - f \in 1..d /\ TopFrame - (TopFrame - f) = f
        BY <3>2 DEF Frame
      <4>2. TopFrame - f \in DOMAIN freelist'
        BY <1>1, <1>4, <4>1
      <4>3. freelist'[TopFrame - f] = TopFrame - (TopFrame - f)
        BY <1>3, <1>4, <4>1, <4>2
      <4> QED BY <4>1, <4>2, <4>3
    <3> QED BY <3>1, <3>2 DEF Frame
  <2> QED BY <1>2, <1>5, <2>2, <2>3, <2>4 DEF ListInv
<1>11. EarlyInv'
  BY <1>2 DEF EarlyInv
<1> QED BY <1>7, <1>8, <1>9, <1>10, <1>11 DEF IInv

LEMMA KallocKeeps ==
  ASSUME IInv, NEW pid \in Pid \union {Kernel}, Kalloc(pid)
  PROVE  IInv'
<1>1. /\ freelist \in Seq(Frame) /\ Len(freelist) \in Nat /\ DOMAIN freelist = 1..Len(freelist)
      /\ totalframes \in Nat /\ totalframes < NENTRY /\ totalframes \in Entry
      /\ NENTRY \in Nat
  <2>1. totalframes \in 0..NENTRY /\ totalframes < NENTRY
    BY DEF IInv, TypeOK, Kalloc
  <2> QED BY <2>1, TableAssumption, ListShape DEF IInv, Entry
<1>2. PICK k \in Suitable(pid) :
          /\ freelist' = RemoveAt(freelist, k)
          /\ framearr' = [framearr EXCEPT ![totalframes] = freelist[k]]
          /\ pidarr' = [pidarr EXCEPT ![totalframes] = pid]
          /\ owner' = [owner EXCEPT ![freelist[k]] = IF use_lock THEN pid ELSE Boot]
  BY DEF Kalloc
<1>3. k \in 1..Len(freelist) /\ IsSafe(pid, freelist[k])
  BY <1>1, <1>2 DEF Suitable
<1> DEFINE f == freelist[k]
           who == IF use_lock THEN pid ELSE Boot
<1>4. f \in Frame /\ f \in Managed /\ owner[f] = Free
  BY <1>1, <1>3 DEF IInv, ListInv, Managed
<1>5. /\ freelist' \in Seq(Frame) /\ Len(freelist') = Len(freelist) - 1
      /\ \A i \in 1..(Len(freelist) - 1) :
             freelist'[i] = IF i < k THEN freelist[i] ELSE freelist[i + 1]
  BY <1>1, <1>2, <1>3, RemoveAtIs
<1>6. /\ use_lock' = use_lock /\ totalframes' = totalframes + 1 /\ broken' = broken
      /\ Managed' = Managed /\ (use_lock \/ pid = Kernel)
  BY DEF Kalloc, Managed
<1>7. owner \in [Frame -> Pid \union {Kernel, Boot, Free}]
  BY DEF IInv, TypeOK
<1> HIDE DEF f
<1>8. /\ owner'[f] = who /\ \A g \in Frame : g # f => owner'[g] = owner[g]
      /\ who # Free /\ who \in Pid \union {Kernel, Boot}
  BY <1>2, <1>4, <1>7, PidAssumption DEF f, Free, Boot, Kernel
<1>9. /\ framearr'[totalframes] = f /\ pidarr'[totalframes] = pid
      /\ \A i \in Entry : i # totalframes => framearr'[i] = framearr[i] /\ pidarr'[i] = pidarr[i]
  BY <1>1, <1>2 DEF IInv, TypeOK, f
<1>10. TypeOK'
  <2>1. /\ framearr' \in [Entry -> Frame \union {None, 0}]
        /\ pidarr' \in [Entry -> Pid \union {Kernel, None, 0}]
        /\ owner' \in [Frame -> Pid \union {Kernel, Boot, Free}]
    BY <1>2, <1>4 DEF IInv, TypeOK, f
  <2>2. totalframes' \in 0..NENTRY
    BY <1>1, <1>6
  <2> QED BY <1>5, <1>6, <2>1, <2>2 DEF IInv, TypeOK
<1>11. Isolated'
  <2>1. ASSUME NEW g \in Frame, g = f + 1 \/ g = f - 1, owner'[f] \in Pid, owner'[g] \in Pid
        PROVE  owner'[f] = owner'[g]
    <3>1. g # f /\ g \in {f - 1, f + 1}
      BY <1>4, <2>1, FrameAssumption DEF Frame
    <3>2. use_lock /\ who = pid /\ pid # Kernel
      BY <1>8, <2>1, PidAssumption DEF Boot, Kernel
    <3>3. GetPidForFrame(g) = owner[g] /\ owner[g] \in Pid
      BY <1>8, <2>1, <3>1, <3>2, PidIs DEF IInv
    <3>4. GetPidForFrame(g) = pid \/ GetPidForFrame(g) < 0
      BY <1>3, <3>1, <3>2 DEF IsSafe, f
    <3>5. owner[g] = pid
      <4>1. owner[g] \in Nat
        BY <3>3, PidAssumption
      <4> QED BY <3>3, <3>4, <4>1
    <3> QED BY <1>8, <3>1, <3>2, <3>5
  <2>2. ASSUME NEW g \in Frame, NEW h \in Frame, h = g + 1, owner'[g] \in Pid, owner'[h] \in Pid
        PROVE  owner'[g] = owner'[h]
    <3>1. CASE g = f
      BY <2>1, <2>2, <3>1
    <3>2. CASE h = f
      <4>1. g = f - 1
        BY <2>2, <3>2, FrameAssumption DEF Frame
      <4> QED BY <2>1, <2>2, <3>2, <4>1
    <3>3. CASE g # f /\ h # f
      BY <1>8, <2>2, <3>3 DEF IInv, Isolated
    <3> QED BY <3>1, <3>2, <3>3
  <2> QED BY <2>2 DEF Isolated
<1>12. ArrInv'
  <2>1. \A i \in Entry : framearr[i] \in Frame => i # totalframes
    BY <1>1 DEF IInv, ArrInv
  <2>2. \A i \in Entry : framearr'[i] \in Frame => i < totalframes'
    BY <1>1, <1>6, <1>9 DEF IInv, ArrInv, Entry
  <2>3. \A i \in Entry : framearr[i] # f
    <3> SUFFICES ASSUME NEW i \in Entry, framearr[i] = f PROVE FALSE
      OBVIOUS
    <3>1. owner[f] = IF use_lock THEN pidarr[i] ELSE Boot
      BY <1>4 DEF IInv, ArrInv
    <3>2. pidarr[i] \in Pid \union {Kernel, None, 0}
      BY DEF IInv, TypeOK
    <3> QED BY <1>4, <3>1, <3>2, PidAssumption DEF Free, Boot, Kernel, None
  <2>4. ASSUME NEW i \in Entry, NEW j \in Entry, framearr'[i] = framearr'[j], framearr'[i] \in Frame
        PROVE  i = j
    BY <1>9, <2>3, <2>4 DEF IInv, ArrInv
  <2>5. ASSUME NEW i \in Entry, framearr'[i] \in Frame
        PROVE  owner'[framearr'[i]] = IF use_lock' THEN pidarr'[i] ELSE Boot
    BY <1>6, <1>8, <1>9, <2>3, <2>5 DEF IInv, ArrInv
  <2>6. ASSUME use_lock, NEW g \in Frame, owner'[g] \notin {Free, Boot}
        PROVE  \E i \in Entry : framearr'[i] = g
    <3>1. CASE g = f
      BY <1>1, <1>9, <3>1
    <3>2. CASE g # f
      <4>1. PICK i \in Entry : framearr[i] = g
        BY <1>8, <2>6, <3>2 DEF IInv, ArrInv
      <4>2. i # totalframes
        BY <2>1, <4>1
      <4> QED BY <1>9, <4>1, <4>2
    <3> QED BY <3>1, <3>2
  <2> QED BY <1>6, <2>2, <2>4, <2>5, <2>6 DEF ArrInv
<1>13. ListInv'
  <2>0. DOMAIN freelist' = 1..(Len(freelist) - 1)
    BY <1>1, <1>5
  <2>1. \A i \in DOMAIN freelist' : \E j \in DOMAIN freelist :
            /\ j # k /\ freelist'[i] = freelist[j] /\ j = IF i < k THEN i ELSE i + 1
    BY <1>1, <1>3, <1>5, <2>0
  <2>2. \A i \in DOMAIN freelist : freelist[i] = f => i = k
    BY <1>1, <1>3 DEF IInv, ListInv, f
  <2>3. ASSUME NEW i \in DOMAIN freelist', NEW j \in DOMAIN freelist', freelist'[i] = freelist'[j]
        PROVE  i = j
    <3>1. PICK i1 \in DOMAIN freelist : freelist'[i] = freelist[i1] /\ i1 = IF i < k THEN i ELSE i + 1
      BY <2>1
    <3>2. PICK j1 \in DOMAIN freelist : freelist'[j] = freelist[j1] /\ j1 = IF j < k THEN j ELSE j + 1
      BY <2>1
    <3>3. i1 = j1
      BY <2>3, <3>1, <3>2 DEF IInv, ListInv
    <3> QED BY <1>1, <1>3, <2>0, <3>1, <3>2, <3>3
  <2>4. ASSUME NEW i \in DOMAIN freelist'
        PROVE  freelist'[i] \in Managed /\ owner'[freelist'[i]] = Free
    <3>1. PICK j \in DOMAIN freelist : j # k /\ freelist'[i] = freelist[j]
      BY <2>1
    <3>2. freelist[j] \in Managed /\ owner[freelist[j]] = Free /\ freelist[j] # f
      BY <2>2, <3>1 DEF IInv, ListInv
    <3> QED BY <1>8, <3>1, <3>2 DEF Managed
  <2>5. ASSUME NEW g \in Managed, owner'[g] = Free
        PROVE  \E i \in DOMAIN freelist' : freelist'[i] = g
    <3>1. g # f /\ owner[g] = Free
      BY <1>8, <2>5 DEF Managed
    <3>2. PICK j \in DOMAIN freelist : freelist[j] = g
      BY <3>1 DEF IInv, ListInv
    <3>3. j # k
      BY <3>1, <3>2 DEF f
    <3>4. CASE j < k
      BY <1>1, <1>3, <1>5, <2>0, <3>2, <3>4
    <3>5. CASE j > k
      <4>1. j - 1 \in DOMAIN freelist' /\ ~(j - 1 < k) /\ (j - 1) + 1 = j
        BY <1>1, <1>3, <2>0, <3>5
      <4>2. freelist'[j - 1] = freelist[j]
        BY <1>5, <2>0, <4>1
      <4> QED BY <3>2, <4>1, <4>2
    <3> QED BY <1>1, <1>3, <3>3, <3>4, <3>5
  <2> QED BY <1>6, <2>3, <2>4, <2>5 DEF ListInv
<1>14. EarlyInv'
  <2> SUFFICES ASSUME ~use_lock
               PROVE  /\ totalframes' + Len(freelist') = SplitFrame - LowFrame
                      /\ \A g \in Frame : owner'[g] \in {Free, Boot}
                      /\ \A g \in Frame \ Managed : owner'[g] = Free
    BY <1>6 DEF EarlyInv
  <2> QED BY <1>1, <1>4, <1>5, <1>6, <1>8 DEF IInv, EarlyInv
<1> QED BY <1>10, <1>11, <1>12, <1>13, <1>14 DEF IInv

LEMMA KfreeKeeps ==
  ASSUME IInv, NEW f \in Frame, Kfree(f)
  PROVE  IInv'
<1>1. freelist \in Seq(Frame) /\ Len(freelist) \in Nat /\ DOMAIN freelist = 1..Len(freelist)
  BY ListShape DEF IInv
<1>2. /\ use_lock /\ use_lock' = use_lock /\ totalframes' = totalframes /\ broken' = broken
      /\ freelist' = <<f>> \o freelist
      /\ owner[f] \in Pid \union {Kernel} /\ owner' = [owner EXCEPT ![f] = Free]
      /\ Managed' = Managed /\ Managed = Frame
  BY DEF Kfree, Managed
<1>3. owner[f] \notin {Free, Boot}
  BY <1>2, PidAssumption DEF Free, Boot, Kernel
<1>4. owner'[f] = Free /\ \A g \in Frame : g # f => owner'[g] = owner[g]
  BY <1>2 DEF IInv, TypeOK
<1>5. PICK e \in Entry : framearr[e] = f
  BY <1>2, <1>3 DEF IInv, ArrInv
<1>6. framearr' = [framearr EXCEPT ![e] = None] /\ pidarr' = [pidarr EXCEPT ![e] = None]
  <2>1. EntriesOf(f) = {e} /\ FirstEntry(f) = e
    BY <1>5, FirstIs DEF IInv
  <2>2. EntriesOf(f) # {}
    BY <2>1
  <2> QED BY <2>1, <2>2 DEF Kfree
<1>7. None \notin Frame
  BY FrameAssumption DEF Frame, None
<1>8. /\ framearr'[e] = None
      /\ \A i \in Entry : i # e => framearr'[i] = framearr[i] /\ pidarr'[i] = pidarr[i]
  BY <1>6 DEF IInv, TypeOK
<1>9. /\ freelist' \in Seq(Frame) /\ Len(freelist') = Len(freelist) + 1
      /\ DOMAIN freelist' = 1..(Len(freelist) + 1)
      /\ freelist'[1] = f /\ \A i \in 2..(Len(freelist) + 1) : freelist'[i] = freelist[i - 1]
  <2>1. <<f>> \in Seq(Frame) /\ Len(<<f>>) = 1 /\ <<f>>[1] = f
    OBVIOUS
  <2>2. /\ freelist' \in Seq(Frame) /\ Len(freelist') = 1 + Len(freelist)
        /\ \A i \in 1..(1 + Len(freelist)) :
               freelist'[i] = IF i <= 1 THEN <<f>>[i] ELSE freelist[i - 1]
    BY <1>1, <1>2, <2>1, ConcatProperties
  <2> QED BY <1>1, <2>1, <2>2
<1>10. TypeOK'
  <2>1. /\ framearr' \in [Entry -> Frame \union {None, 0}]
        /\ pidarr' \in [Entry -> Pid \union {Kernel, None, 0}]
        /\ owner' \in [Frame -> Pid \union {Kernel, Boot, Free}]
    BY <1>2, <1>6 DEF IInv, TypeOK
  <2> QED BY <1>2, <1>9, <2>1 DEF IInv, TypeOK
<1>11. Isolated'
  <2>1. Free \notin Pid
    BY PidAssumption DEF Free
  <2>2. \A g \in Frame : owner'[g] \in Pid => owner'[g] = owner[g]
    BY <1>4, <2>1
  <2> QED BY <2>2 DEF IInv, Isolated
<1>12. ArrInv'
  <2>1. \A i \in Entry : framearr'[i] \in Frame => framearr'[i] = framearr[i] /\ i # e
    BY <1>7, <1>8
  <2>2. \A i, j \in Entry : framearr'[i] = framearr'[j] /\ framearr'[i] \in Frame => i = j
    BY <2>1 DEF IInv, ArrInv
  <2>3. ASSUME NEW i \in Entry, framearr'[i] \in Frame
        PROVE  owner'[framearr'[i]] = IF use_lock' THEN pidarr'[i] ELSE Boot
    <3>1. framearr[i] \in Frame /\ framearr'[i] = framearr[i] /\ i # e /\ pidarr'[i] = pidarr[i]
      BY <1>8, <2>1, <2>3
    <3>2. framearr[i] # f
      BY <1>5, <3>1 DEF IInv, ArrInv
    <3>3. owner[framearr[i]] = pidarr[i]
      BY <1>2, <3>1 DEF IInv, ArrInv
    <3> QED BY <1>2, <1>4, <3>1, <3>2, <3>3
  <2>4. ASSUME NEW g \in Frame, owner'[g] \notin {Free, Boot}
        PROVE  \E i \in Entry : framearr'[i] = g
    <3>1. g # f /\ owner[g] \notin {Free, Boot}
      BY <1>4, <2>4
    <3>2. PICK i \in Entry : framearr[i] = g
      BY <1>2, <3>1 DEF IInv, ArrInv
    <3> QED BY <1>5, <1>8, <3>1, <3>2
  <2>5. \A i \in Entry : framearr'[i] \in Frame => i < totalframes'
    BY <1>2, <2>1 DEF IInv, ArrInv
  <2> QED BY <2>2, <2>3, <2>4, <2>5 DEF ArrInv
<1>13. ListInv'
  <2>1. \A i \in DOMAIN freelist : freelist[i] # f
    BY <1>3 DEF IInv, ListInv
  <2>2. ASSUME NEW i \in DOMAIN freelist', i # 1
        PROVE  i - 1 \in DOMAIN freelist /\ freelist'[i] = freelist[i - 1]
    <3>1. i \in 2..(Len(freelist) + 1) /\ i - 1 \in 1..Len(freelist)
      BY <1>1, <1>9, <2>2
    <3> QED BY <1>1, <1>9, <3>1
  <2>3. ASSUME NEW i \in DOMAIN freelist', NEW j \in DOMAIN freelist', freelist'[i] = freelist'[j]
        PROVE  i = j
    <3>1. CASE i = 1 \/ j = 1
      BY <1>9, <2>1, <2>2, <2>3, <3>1
    <3>2. CASE i # 1 /\ j # 1
      <4>1. i - 1 = j - 1
        BY <2>2, <2>3, <3>2 DEF IInv, ListInv
      <4> QED BY <1>9, <4>1
    <3> QED BY <3>1, <3>2
  <2>4. ASSUME NEW i \in DOMAIN freelist'
        PROVE  freelist'[i] \in Frame /\ owner'[freelist'[i]] = Free
    <3>1. CASE i = 1
      BY <1>4, <1>9, <3>1
    <3>2. CASE i # 1
      <4>1. i - 1 \in DOMAIN freelist /\ freelist'[i] = freelist[i - 1]
        BY <2>2, <3>2
      <4>2. freelist[i - 1] \in Frame /\ owner[freelist[i - 1]] = Free /\ freelist[i - 1] # f
        BY <1>2, <2>1, <4>1 DEF IInv, ListInv
      <4> QED BY <1>4, <4>1, <4>2
    <3> QED BY <3>1, <3>2
  <2>5. ASSUME NEW g \in Frame, owner'[g] = Free
        PROVE  \E i \in DOMAIN freelist' : freelist'[i] = g
    <3>1. CASE g = f
      <4>1. 1 \in DOMAIN freelist'
        BY <1>1, <1>9
      <4> QED BY <1>9, <3>1, <4>1
    <3>2. CASE g # f
      <4>1. PICK k \in DOMAIN freelist : freelist[k] = g
        BY <1>2, <1>4, <2>5, <3>2 DEF IInv, ListInv
      <4>2. k + 1 \in DOMAIN freelist' /\ k + 1 \in 2..(Len(freelist) + 1) /\ (k + 1) - 1 = k
        BY <1>1, <1>9
      <4>3. freelist'[k + 1] = freelist[(k + 1) - 1]
        BY <1>9, <4>2
      <4> QED BY <4>1, <4>2, <4>3
    <3> QED BY <3>1, <3>2
  <2> QED BY <1>2, <2>3, <2>4, <2>5 DEF ListInv
<1>14. EarlyInv'
  BY <1>2 DEF EarlyInv
<1> QED BY <1>10, <1>11, <1>12, <1>13, <1>14 DEF IInv

LEMMA DumpKeeps ==
  ASSUME IInv, DumpPhysmem
  PROVE  IInv'
<1> USE TableAssumption
<1>1. UNCHANGED <<freelist, use_lock, totalframes, owner, broken>> /\ use_lock
  BY DEF DumpPhysmem
<1>2. PICK order \in [Sorted -> Sorted] :
          /\ \A i, j \in Sorted : order[i] = order[j] => i = j
          /\ \A i, j \in Sorted : i < j => framearr[order[i]] >= framearr[order[j]]
          /\ framearr' = [i \in Entry |-> framearr[IF i \in Sorted THEN order[i] ELSE i]]
          /\ pidarr' = [i \in Entry |-> pidarr[IF i \in Sorted THEN order[i] ELSE i]]
  BY DEF DumpPhysmem
<1> DEFINE from == [i \in Entry |-> IF i \in Sorted THEN order[i] ELSE i]
<1>3. Sorted \subseteq Entry /\ IsFiniteSet(Sorted)
  BY FS_Interval DEF Sorted, Entry
<1>4. from \in [Entry -> Entry] /\ \A i, j \in Entry : from[i] = from[j] => i = j
  BY <1>2, <1>3
<1>5. \A i \in Entry : framearr'[i] = framearr[from[i]] /\ pidarr'[i] = pidarr[from[i]]
  BY <1>2
<1>6. \A k \in Entry : \E i \in Entry : from[i] = k
  <2>1. order \in Surjection(Sorted, Sorted)
    <3>1. order \in Injection(Sorted, Sorted)
      BY <1>2 DEF Injection, IsInjective
    <3> QED BY <1>3, <3>1, FS_Injection
  <2> QED BY <1>3, <2>1 DEF Surjection
<1>7. TypeOK'
  <2>1. /\ framearr' \in [Entry -> Frame \union {None, 0}]
        /\ pidarr' \in [Entry -> Pid \union {Kernel, None, 0}]
    BY <1>2, <1>3 DEF IInv, TypeOK
  <2> QED BY <1>1, <2>1 DEF IInv, TypeOK
<1>8. \A i \in Entry : framearr'[i] \in Frame => i < totalframes'
  <2> SUFFICES ASSUME NEW e \in Entry, framearr'[e] \in Frame, ~(e < totalframes) PROVE FALSE
    BY <1>1
  <2>1. \A i \in Entry : framearr[i] \in Frame => i < totalframes
    BY DEF IInv, ArrInv
  <2>2. e \in Sorted /\ totalframes \in Nat /\ e \in Nat
    <3>1. e \in Sorted
      BY <1>2, <2>1
    <3>2. totalframes \in 0..NENTRY
      BY DEF IInv, TypeOK
    <3> QED BY <3>1, <3>2 DEF Sorted
  <2>3. framearr[order[e]] \in Frame
    BY <1>2, <2>2
  <2>4. \A i \in 0..e : order[i] \in 0..(totalframes - 1)
    <3> SUFFICES ASSUME NEW i \in 0..e PROVE order[i] \in 0..(totalframes - 1)
      OBVIOUS
    <3>1. i \in Sorted /\ order[i] \in Sorted /\ order[i] \in Entry
      BY <1>2, <1>3, <2>2 DEF Sorted
    <3>2. framearr[order[i]] \in Frame
      <4>1. CASE i = e
        BY <2>3, <4>1
      <4>2. CASE i # e
        <5>1. framearr[order[i]] >= framearr[order[e]]
          BY <1>2, <2>2, <3>1, <4>2
        <5>2. framearr[order[i]] \in Frame \union {None, 0}
          BY <3>1 DEF IInv, TypeOK
        <5> QED BY <2>3, <5>1, <5>2, FrameAssumption DEF Frame, None
      <4> QED BY <4>1, <4>2
    <3> QED BY <2>1, <2>2, <3>1, <3>2 DEF Entry
  <2> DEFINE first == [i \in 0..e |-> order[i]]
  <2>5. first \in [0..e -> 0..(totalframes - 1)]
    BY <2>4
  <2>6. /\ IsFiniteSet(0..e) /\ IsFiniteSet(0..(totalframes - 1))
        /\ Cardinality(0..(totalframes - 1)) < Cardinality(0..e)
    <3>1. Cardinality(0..e) = e + 1 /\ IsFiniteSet(0..e)
      BY <2>2, FS_Interval
    <3>2. Cardinality(0..(totalframes - 1)) = totalframes /\ IsFiniteSet(0..(totalframes - 1))
      BY <2>2, FS_Interval
    <3> QED BY <2>2, <3>1, <3>2
  <2>7. PICK x \in 0..e, y \in 0..e : x # y /\ first[x] = first[y]
    <3> HIDE DEF first
    <3> QED BY <2>5, <2>6, FS_PigeonHole
  <2>8. x \in Sorted /\ y \in Sorted
    BY <2>2 DEF Sorted
  <2> QED BY <1>2, <2>7, <2>8
<1>9. ArrInv'
  <2> HIDE DEF from
  <2>1. \A i, j \in Entry : framearr'[i] = framearr'[j] /\ framearr'[i] \in Frame => i = j
    BY <1>4, <1>5 DEF IInv, ArrInv
  <2>2. \A i \in Entry : framearr'[i] \in Frame =>
            owner'[framearr'[i]] = IF use_lock' THEN pidarr'[i] ELSE Boot
    BY <1>1, <1>4, <1>5 DEF IInv, ArrInv
  <2>3. \A f \in Frame : owner'[f] \notin {Free, Boot} => \E i \in Entry : framearr'[i] = f
    BY <1>1, <1>4, <1>5, <1>6 DEF IInv, ArrInv
  <2> QED BY <1>8, <2>1, <2>2, <2>3 DEF ArrInv
<1>10. Isolated' /\ ListInv' /\ EarlyInv'
  BY <1>1 DEF IInv, Isolated, ListInv, EarlyInv, Managed
<1> QED BY <1>7, <1>9, <1>10 DEF IInv

LEMMA NextInv == IInv /\ [Next]_vars => IInv'
<1> SUFFICES ASSUME IInv, [Next]_vars PROVE IInv'
  OBVIOUS
<1>1. ASSUME NEW pid \in Pid \union {Kernel}, KallocNone(pid) \/ KallocOverrun(pid)
      PROVE  IInv'
  <2>1. UNCHANGED <<freelist, use_lock, framearr, pidarr, totalframes, owner>>
    BY <1>1 DEF KallocNone, KallocOverrun, arrays
  <2>2. broken' \in {"no frame", "overrun"}
    BY <1>1 DEF KallocNone, KallocOverrun
  <2> QED BY <2>1, <2>2 DEF IInv, TypeOK, Isolated, ArrInv, ListInv, EarlyInv, Managed
<1>2. CASE UNCHANGED vars
  BY <1>2 DEF vars, arrays, IInv, TypeOK, Isolated, ArrInv, ListInv, EarlyInv, Managed
<1> QED BY <1>1, <1>2, Kinit2Keeps, KallocKeeps, KfreeKeeps, DumpKeeps DEF Next

\* The strengthened invariant.
THEOREM InvariantHolds == Spec => []IInv
<1>1. Init => IInv
  BY InitInv
<1>2. IInv /\ [Next]_vars => IInv'
  BY NextInv
<1> QED BY <1>1, <1>2, PTL DEF Spec

\* The list and the two arrays of kalloc.c keep their types.
THEOREM TypeCorrect == Spec => []TypeOK
<1>1. IInv => TypeOK
  BY DEF IInv
<1> QED BY <1>1, InvariantHolds, PTL

\* Two processes never have neighbouring frames, whatever was freed and sorted
\* in between (kalloc.c:129).
THEOREM ProcessesApart == Spec => []Isolated
<1>1. IInv => Isolated
  BY DEF IInv
<1> QED BY <1>1, InvariantHolds, PTL

\* A frame is free once or handed out once, and the arrays say to whom.
THEOREM EveryFrameAccounted == Spec => []Accounted
<1>1. IInv => Accounted
  <2> SUFFICES ASSUME IInv PROVE Accounted
    OBVIOUS
  <2>1. \A f \in Managed : owner[f] = Free <=> \E i \in DOMAIN freelist : freelist[i] = f
    BY DEF IInv, ListInv
  <2>2. ASSUME use_lock, NEW f \in Frame
        PROVE  \/ owner[f] \in {Free, Boot} /\ EntriesOf(f) = {}
               \/ \E i \in Entry : EntriesOf(f) = {i} /\ pidarr[i] = owner[f]
    <3>1. CASE owner[f] \in {Free, Boot}
      <4>1. ASSUME NEW i \in Entry, framearr[i] = f PROVE FALSE
        <5>1. owner[f] = pidarr[i]
          BY <2>2, <4>1 DEF IInv, ArrInv
        <5>2. pidarr[i] \in Pid \union {Kernel, None, 0}
          BY DEF IInv, TypeOK
        <5> QED BY <3>1, <5>1, <5>2, PidAssumption DEF Free, Boot, Kernel, None
      <4> QED BY <3>1, <4>1 DEF EntriesOf
    <3>2. CASE owner[f] \notin {Free, Boot}
      <4>1. PICK i \in Entry : framearr[i] = f
        BY <2>2, <3>2 DEF IInv, ArrInv
      <4>2. EntriesOf(f) = {i} /\ pidarr[i] = owner[f]
        BY <2>2, <4>1, FirstIs DEF IInv, ArrInv
      <4> QED BY <4>2
    <3> QED BY <3>1, <3>2
  <2>3. totalframes < NENTRY => framearr[totalframes] \notin Frame
    <3>1. totalframes \in 0..NENTRY
      BY DEF IInv, TypeOK
    <3>2. totalframes < NENTRY => totalframes \in Entry
      BY <3>1, TableAssumption DEF Entry
    <3> QED BY <3>1, <3>2 DEF IInv, ArrInv
  <2>4. \A i, j \in DOMAIN freelist : freelist[i] = freelist[j] => i = j
    BY DEF IInv, ListInv
  <2> QED BY <2>1, <2>2, <2>3, <2>4 DEF Accounted
<1> QED BY <1>1, InvariantHolds, PTL
=============================================================================
