----------------------------- MODULE MCManager -----------------------------
(* The manager checked on three and four requests.                           *)
EXTENDS CallManager, TLC

CONSTANTS r1, r2, r3, r4

Three == {r1, r2, r3}
Four == {r1, r2, r3, r4}

TwoFolders == {"work", "home"}

Symmetry == Permutations(Requests)

-----------------------------------------------------------------------------
(* What a comment says of the program and the code does not do.              *)

(* "A stop or restart is running.  Its folder must not move until it is not" *)
(* (call.ts:307): the folder of a call never moves under an open writer.     *)
WriterIsThere == \A k \in Used : ctl[k].writer => ctl[k].dir = DirOf(ctl[k].call)

(* "So 'attached' means audio is being written" (manager.ts:486).            *)
AttachedIsTaking ==
  [][\A r \in Requests : pc'[r] = "attached" /\ pc[r] # "attached" =>
       \E k \in Used : ctl'[k].phase = "taking"]_vars
=============================================================================
