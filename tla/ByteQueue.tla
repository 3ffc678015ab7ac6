----------------------------- MODULE ByteQueue -----------------------------
(***************************************************************************)
(* What a pipe promises: a bounded first-in first-out queue of bytes with  *)
(* two ends.  A reader is told that the file has ended only when nobody    *)
(* holds the write end any more and every byte has been delivered.         *)
(***************************************************************************)
EXTENDS Naturals, Sequences

CONSTANTS Byte,      \* what one byte can be
          Capacity,  \* bytes the queue can hold
          Eof,       \* "end of file", not a byte
          Nothing    \* no answer

VARIABLES queue,      \* bytes written and not yet read
          writeOpen,  \* somebody may still write
          answer      \* what a reader has just been given

vars == <<queue, writeOpen, answer>>

Init == queue = <<>> /\ writeOpen = TRUE /\ answer = Nothing

Put(b) == /\ writeOpen /\ Len(queue) < Capacity
          /\ queue' = Append(queue, b)
          /\ UNCHANGED <<writeOpen, answer>>

Get == /\ queue # <<>>
       /\ answer' = Head(queue) /\ queue' = Tail(queue)
       /\ UNCHANGED writeOpen

EndOfFile == /\ queue = <<>> /\ ~writeOpen
             /\ answer' = Eof
             /\ UNCHANGED <<queue, writeOpen>>

\* The reader has what it was given.
Taken == /\ answer' = Nothing
         /\ UNCHANGED <<queue, writeOpen>>

CloseWrite == /\ writeOpen' = FALSE
              /\ UNCHANGED <<queue, answer>>

Next == (\E b \in Byte : Put(b)) \/ Get \/ EndOfFile \/ Taken \/ CloseWrite

Spec == Init /\ [][Next]_vars
=============================================================================
