------------------------------ MODULE MapReduce ------------------------------
(***************************************************************************)
(* MR_Run() of p6/mapreduce.c with its mapper and reducer threads, and the *)
(* Map and Reduce functions of the wordcount and sort clients.             *)
(*                                                                         *)
(* A critical section under a mutex is one action; the tests of the shared *)
(* counters, which take no mutex, are actions of their own.  get_next() is *)
(* one action per call though it takes no mutex either: PartitionsPrivate  *)
(* says that nobody else touches the list.                                 *)
(***************************************************************************)
EXTENDS Partitioners, FiniteSets, FiniteSetsExt, TLC

CONSTANTS Mapper, Reducer,  \* the threads MR_Run() creates
          TotalFiles,       \* totalfiles, argc - 1
          Value,            \* what a value can be
          MaxLines,         \* bound: lines in a file
          Client            \* the clients: "sort", "wordcount"

ASSUME ThreadAssumption == Mapper # {} /\ Reducer # {} /\ Mapper \intersect Reducer = {}
ASSUME FileAssumption   == /\ TotalFiles \in Nat /\ MaxLines \in Nat
                         /\ Client \subseteq {"sort", "wordcount"}
\* The sort client's lines are unsigned numbers of KeyBits bits.
ASSUME SortAssumption   == "sort" \in Client => \A k \in Key : atol(k) \in 0..(2^KeyBits - 1)

VARIABLES client,     \* who calls MR_Run(), with its partition function part
          content,    \* file -> its lines
          files,      \* the counter mappers take files from
          part_num,   \* the counter reducers take partitions from
          hashtable,  \* partition -> the list of its bucket
          size,       \* partition -> size of its bucket
          main,       \* what MR_Run() does
          sortAt,     \* i of its sorting loop
          pc,         \* thread -> where it is
          index,      \* thread -> index of its wrapper
          line,       \* mapper -> lines read of its file
          key,        \* reducer -> key of its call of Reduce
          count,      \* reducer -> values it got in that call
          out         \* what the reducers print

args    == <<client, content>>
mapVars == <<files, line>>
redVars == <<part_num, key, count, out>>
vars    == <<args, mapVars, redVars, hashtable, size, main, sortAt, pc, index>>

Thread == Mapper \union Reducer
File   == 1..TotalFiles
Node   == [key : Key, value : Value]

Part(k) == IF client = "sort" THEN MR_SortedPartition(k) ELSE MR_DefaultHashPartition(k)

Goto(t, label) == pc' = [pc EXCEPT ![t] = label]

----------------------------------------------------------------------------
Init == /\ client \in Client
        /\ content \in [File -> BoundedSeq(Node, MaxLines)]
        /\ files = 0 /\ part_num = 0
        /\ hashtable = [p \in Partition |-> <<>>] /\ size = [p \in Partition |-> 0]
        /\ main = "mapping" /\ sortAt = 0
        /\ pc = [t \in Thread |-> IF t \in Mapper THEN "map_test" ELSE "uncreated"]
        /\ index = [t \in Thread |-> 0] /\ line = [t \in Mapper |-> 0]
        /\ key = [t \in Reducer |-> CHOOSE k \in Key : TRUE] /\ count = [t \in Reducer |-> 0]
        /\ out = <<>>

----------------------------------------------------------------------------
(* mapWrapper() and Map() *)

\* The head of the while loop reads files without the mutex.
MapTest(t) == /\ main # "aborted" /\ pc[t] = "map_test"
              /\ Goto(t, IF files < TotalFiles THEN "map_take" ELSE "exited")
              /\ UNCHANGED <<args, mapVars, redVars, hashtable, size, main, sortAt, index>>

MapTake(t) == /\ main # "aborted" /\ pc[t] = "map_take"
              /\ files' = files + 1
              /\ index' = [index EXCEPT ![t] = files + 1]
              /\ Goto(t, "map_open")
              /\ UNCHANGED <<args, line, redVars, hashtable, size, main, sortAt>>

\* Map() asserts that it can open its file.  argv[totalfiles + 1] is "".
MapOpen(t) == /\ main # "aborted" /\ pc[t] = "map_open"
              /\ IF index[t] \in File
                 THEN /\ line' = [line EXCEPT ![t] = 0]
                      /\ Goto(t, "map_line") /\ UNCHANGED main
                 ELSE main' = "aborted" /\ UNCHANGED <<line, pc>>
              /\ UNCHANGED <<args, files, redVars, hashtable, size, sortAt, index>>

\* Mutant: the size is counted outside the mutex, and an increment is lost.
EmitSizeRacy(t) ==
    /\ main # "aborted" /\ pc[t] = "map_line" /\ line[t] < Len(content[index[t]])
    /\ LET pair == content[index[t]][line[t] + 1]
           p    == Part(pair.key)
       IN  /\ hashtable' = [hashtable EXCEPT ![p] = <<pair>> \o @]
           /\ size' \in {size, [size EXCEPT ![p] = @ + 1]}
    /\ line' = [line EXCEPT ![t] = @ + 1]
    /\ UNCHANGED <<args, files, redVars, main, sortAt, pc, index>>

\* MR_Emit() of the next line: insert() puts it at the head of its bucket.
Emit(t) ==
    /\ main # "aborted" /\ pc[t] = "map_line" /\ line[t] < Len(content[index[t]])
    /\ LET pair == content[index[t]][line[t] + 1]
           p    == Part(pair.key)
       IN  /\ hashtable' = [hashtable EXCEPT ![p] = <<pair>> \o @]
           /\ size' = [size EXCEPT ![p] = @ + 1]
    /\ line' = [line EXCEPT ![t] = @ + 1]
    /\ UNCHANGED <<args, files, redVars, main, sortAt, pc, index>>

MapEnd(t) == /\ main # "aborted" /\ pc[t] = "map_line" /\ line[t] = Len(content[index[t]])
             /\ Goto(t, "map_test")
             /\ UNCHANGED <<args, mapVars, redVars, hashtable, size, main, sortAt, index>>

----------------------------------------------------------------------------
(* MR_Run() *)

\* Mutant: only one mapper is waited for.
JoinOne == /\ main = "mapping" /\ \E t \in Mapper : pc[t] = "exited"
           /\ main' = "sorting"
           /\ UNCHANGED <<args, mapVars, redVars, hashtable, size, sortAt, pc, index>>

JoinMappers == /\ main = "mapping" /\ \A t \in Mapper : pc[t] = "exited"
               /\ main' = "sorting"
               /\ UNCHANGED <<args, mapVars, redVars, hashtable, size, sortAt, pc, index>>

\* strcmp(k, l) < 0: after n characters that are the same, k ends or has the lower.
Before(k, l) ==
    \E n \in 0..Len(k) : /\ n < Len(l)
                         /\ \A i \in 1..n : k[i] = l[i]
                         /\ n = Len(k) \/ k[n + 1] < l[n + 1]

\* qsort(): of the first n keys of a list, the j-th is the one that j of them do not
\* exceed, but fewer than j are before.
UpTo(list, n, k)  == {i \in 1..n : ~Before(k, list[i].key)}
Under(list, n, k) == {i \in 1..n : Before(list[i].key, k)}

\* Mutant: the keys are compared as numbers.
LeastNumber(list, n, j) ==
    CHOOSE k \in {list[i].key : i \in 1..n} :
        j \in (Cardinality({i \in 1..n : atol(list[i].key) < atol(k)}) + 1)..
              Cardinality({i \in 1..n : atol(list[i].key) <= atol(k)})

Smallest(list, n, j) ==
    CHOOSE k \in {list[i].key : i \in 1..n} :
        j \in (Cardinality(Under(list, n, k)) + 1)..Cardinality(UpTo(list, n, k))

\* Mutant: the value of a new node is not set.
SortedNoValue(list, n) == [j \in 1..n |-> [key |-> Smallest(list, n, j), value |-> 0]]

\* One bucket is rebuilt: size nodes, their keys in order, and for all of them
\* the value of the node that was its head.
Sorted(list, n) ==
    [j \in 1..n |-> [key |-> Smallest(list, n, j), value |-> Head(list).value]]

SortBucket ==
    /\ main = "sorting" /\ sortAt < NumPart
    /\ hashtable' = IF hashtable[sortAt] = <<>> THEN hashtable
                    ELSE [hashtable EXCEPT ![sortAt] = Sorted(@, size[sortAt])]
    /\ sortAt' = sortAt + 1
    /\ UNCHANGED <<args, mapVars, redVars, size, main, pc, index>>

CreateReducers ==
    /\ main = "sorting" /\ sortAt = NumPart
    /\ main' = "reducing"
    /\ pc' = [t \in Thread |-> IF t \in Reducer THEN "red_test" ELSE pc[t]]
    /\ UNCHANGED <<args, mapVars, redVars, hashtable, size, sortAt, index>>

JoinReducers == /\ main = "reducing" /\ \A t \in Reducer : pc[t] = "exited"
                /\ main' = "returned"
                /\ UNCHANGED <<args, mapVars, redVars, hashtable, size, sortAt, pc, index>>

----------------------------------------------------------------------------
(* redWrapper(), Reduce() and get_next() *)

RedTest(t) == /\ pc[t] = "red_test"
              /\ Goto(t, IF part_num < NumPart THEN "red_take" ELSE "exited")
              /\ UNCHANGED <<args, mapVars, redVars, hashtable, size, main, sortAt, index>>

\* Mutant: without the mutex two increments may be one.
RedTakeRacy(t) == /\ pc[t] = "red_take"
                  /\ index' = [index EXCEPT ![t] = part_num]
                  /\ part_num' \in {part_num, part_num + 1}
                  /\ Goto(t, "red_loop")
                  /\ UNCHANGED <<args, mapVars, key, count, out, hashtable, size, main, sortAt>>

RedTake(t) == /\ pc[t] = "red_take"
              /\ index' = [index EXCEPT ![t] = part_num]
              /\ part_num' = part_num + 1
              /\ Goto(t, "red_loop")
              /\ UNCHANGED <<args, mapVars, key, count, out, hashtable, size, main, sortAt>>

\* The inner loop: Reduce() is called with the key at the head of the list.
RedLoop(t) ==
    /\ pc[t] = "red_loop"
    /\ IF index[t] < NumPart /\ hashtable[index[t]] # <<>>
       THEN /\ key' = [key EXCEPT ![t] = hashtable[index[t]][1].key]
            /\ count' = [count EXCEPT ![t] = 0]
            /\ Goto(t, "get_next")
       ELSE Goto(t, "red_test") /\ UNCHANGED <<key, count>>
    /\ UNCHANGED <<args, mapVars, part_num, out, hashtable, size, main, sortAt, index>>

SameKey(t) == /\ hashtable[index[t]] # <<>>
              /\ hashtable[index[t]][1].key = key[t]

GetNext(t) ==
    /\ pc[t] = "get_next" /\ SameKey(t)
    /\ hashtable' = [hashtable EXCEPT ![index[t]] = Tail(@)]
    /\ count' = [count EXCEPT ![t] = @ + 1]
    /\ UNCHANGED <<args, mapVars, part_num, key, out, size, main, sortAt, pc, index>>

\* get_next() returns NULL, and Reduce() prints its key and returns.
ReduceReturn(t) ==
    /\ pc[t] = "get_next" /\ ~SameKey(t)
    /\ out' = Append(out, [key |-> key[t], count |-> count[t]])
    /\ Goto(t, "red_loop")
    /\ UNCHANGED <<args, mapVars, part_num, key, count, hashtable, size, main, sortAt, index>>

----------------------------------------------------------------------------
MapStep(t) == MapTest(t) \/ MapTake(t) \/ MapOpen(t) \/ Emit(t) \/ MapEnd(t)
RedStep(t) == RedTest(t) \/ RedTake(t) \/ RedLoop(t) \/ GetNext(t) \/ ReduceReturn(t)
RunStep    == JoinMappers \/ SortBucket \/ CreateReducers \/ JoinReducers

Next == \/ \E t \in Mapper : MapStep(t)
        \/ \E t \in Reducer : RedStep(t)
        \/ RunStep

Spec == Init /\ [][Next]_vars

----------------------------------------------------------------------------
(* Properties *)

Place == {"uncreated", "map_test", "map_take", "map_open", "map_line",
          "red_test", "red_take", "red_loop", "get_next", "exited"}

\* Every variable has its type.
TypeOK ==
    /\ client \in Client /\ content \in [File -> Seq(Node)]
    /\ files \in Nat /\ part_num \in Nat
    /\ hashtable \in [Partition -> Seq(Node)] /\ size \in [Partition -> Nat]
    /\ main \in {"mapping", "sorting", "reducing", "returned", "aborted"}
    /\ sortAt \in 0..NumPart
    /\ pc \in [Thread -> Place]
    /\ index \in [Thread -> Nat] /\ line \in [Mapper -> Nat]
    /\ key \in [Reducer -> Key] /\ count \in [Reducer -> Nat]
    /\ out \in Seq([key : Key, count : Nat])

\* Threads that work on the file or the partition of their index.
Mapping(t)  == pc[t] = "map_open" \/ pc[t] = "map_line"
Reducing(t) == pc[t] = "red_loop" \/ pc[t] = "get_next"

\* mapWrapper(): no two mappers work on one file, whatever they read of the
\* counter outside the mutex.
FilesPrivate ==
    \A t, u \in Mapper :
        /\ Mapping(t) /\ Mapping(u) /\ index[t] = index[u]
        => t = u

\* redWrapper(): no two reducers work on one partition; get_next() takes nodes
\* off the list without a mutex.
PartitionsPrivate ==
    \A t, u \in Reducer :
        /\ Reducing(t) /\ Reducing(u) /\ index[t] = index[u]
        => t = u

\* What a thread works on is its own, though counters and lists are read
\* without a mutex (mapreduce.c:53, 69, 92).
WorkPrivate == FilesPrivate /\ PartitionsPrivate

\* Lines of the files with key k, nodes with key k, and values of k that
\* reducers hold or have printed.
Lines(k)   == UNION {{f} \X {j \in DOMAIN content[f] : content[f][j].key = k} : f \in File}
Nodes(k)   == UNION {{p} \X {j \in DOMAIN hashtable[p] : hashtable[p][j].key = k} : p \in Partition}
Held(k)    == UNION {{t} \X (1..count[t]) :
                        t \in {u \in Reducer : pc[u] = "get_next" /\ key[u] = k}}
Printed(k) == UNION {{j} \X (1..out[j].count) : j \in {i \in DOMAIN out : out[i].key = k}}
Emitted(k) == Cardinality(Nodes(k)) + Cardinality(Held(k)) + Cardinality(Printed(k))

\* MR_Run(): when it returns, every line of every file has been counted once.
CompleteOnReturn ==
    main = "returned" => \A k \in Key : Cardinality(Printed(k)) = Cardinality(Lines(k))

\* cmpfunc() and MR_SortedPartition(): the keys of a partition are printed in the
\* order of strcmp() and, in the sort client, the numbers of a lower partition are
\* lower than those of a higher one.
OutputSorted ==
    \A i, j \in DOMAIN out :
        LET k == out[i].key  l == out[j].key
        IN  /\ i < j /\ Part(k) = Part(l) => Before(k, l)
            /\ client = "sort" /\ Part(k) < Part(l) => atol(k) < atol(l)

\* Each key is reduced once, with all of its values, after the last of them was
\* emitted (wordcount_parser.py:27 checks "Multiple output of same key").
GBK == INSTANCE GroupByKey WITH emitted <- [k \in Key |-> Emitted(k)]
ImplementsGroupByKey == GBK!Spec

\* Map() of both clients (wordcount.c:11, sort.c:11): "assert(fp != NULL)".
FileOpened == main # "aborted"
=============================================================================
