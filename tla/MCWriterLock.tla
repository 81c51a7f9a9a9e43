---------------------------- MODULE MCWriterLock ----------------------------
(* The lock checked on small sets of process starts.                         *)
EXTENDS WriterLock, TLC

CONSTANTS a, b, c, d

Three == {a, b, c}
Four == {a, b, c, d}

(* One machine, where the last start gets the pid of the first.              *)
Reused == [pids |-> a :> 1 @@ b :> 2 @@ c :> 3 @@ d :> 1, server |-> FALSE, again |-> TRUE]

(* Containers: every start is pid 1.                                         *)
AllOne == [pids |-> [p \in Three |-> 1], server |-> TRUE, again |-> FALSE]

Machines == {Reused}
Both == {Reused, AllOne}
=============================================================================
