------------------------------ MODULE LogQueue ------------------------------
(***************************************************************************)
(* What the log promises the threads that write to it: lines reach the     *)
(* file in the order they were written, and a line is lost only when the   *)
(* queue is full, and then it is the oldest.                               *)
(***************************************************************************)
EXTENDS Naturals, Sequences

CONSTANTS Lines, Room      \* Room: lines that can wait

VARIABLES queue, file

vars == <<queue, file>>

Init == queue = <<>> /\ file = <<>>

Put(line) ==
  Len(queue) < Room /\ queue' = Append(queue, line) /\ UNCHANGED file

DropOldest == Len(queue) = Room /\ queue' = Tail(queue) /\ UNCHANGED file

Write ==
  queue # <<>> /\ file' = Append(file, Head(queue)) /\ queue' = Tail(queue)

Next == (\E line \in Lines : Put(line)) \/ DropOldest \/ Write

Spec == Init /\ [][Next]_vars
=============================================================================
