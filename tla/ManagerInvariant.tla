-------------------------- MODULE ManagerInvariant --------------------------
(***************************************************************************)
(* The inductive invariant of CallManager behind OneLive, OneWriter and    *)
(* KnownIsReal: what a request at each of its steps knows, who made which  *)
(* controller, and whose lock is in a folder.                              *)
(***************************************************************************)
EXTENDS CallManager

(* A request's answer leaves nothing of it; one that goes on asks what its   *)
(* step is for.                                                              *)
Blanks == \A r \in Requests : pc[r] \in {"new", "done", "attached"} => req[r] = Blank

AskedOf(r) ==
  /\ pc[r] \in {"wait", "go", "folder"} /\ req[r].kind \in {"start", "attach", "move"} =>
       req[r].to \in Workspaces
  /\ pc[r] \in {"wait", "go"} /\ req[r].kind \notin {"start", "attach"} => req[r].call \in Made
  /\ pc[r] = "folder" => req[r].kind \in {"start", "attach"}
  /\ pc[r] \in {"load", "loaded"} => req[r].kind \in {"restart", "hold"} /\ req[r].call \in Made
  /\ pc[r] \in {"ready", "holding"} => req[r].ctl \in Used
  /\ pc[r] = "reindex" => req[r].call \in Made

Asked == \A r \in Requests : AskedOf(r)

(* The stage is the one of the start that is in it.                          *)
StageHeld == \A r \in Requests : pc[r] = "folder" <=> stage = r

(* What is being loaded is not known, and somebody waits for it; who waited  *)
(* goes on before anything else happens to the call.                         *)
Loads ==
  /\ \A c \in loading : ~Known(c) /\ Sharers(c) # {}
  /\ \A r \in Requests : pc[r] = "load" => req[r].call \in loading
  /\ \A r \in Requests : pc[r] = "loaded" =>
       /\ Known(req[r].call)
       /\ \A s \in Requests : pc[s] # "go" /\ ~Waiting(s)

(* A restored call waits for the index, and one request only adds it.        *)
Restored ==
  \A r \in Requests : pc[r] = "reindex" =>
    /\ req[r].call \notin trashed \cup index
    /\ \A s \in Requests : pc[s] = "reindex" /\ req[s].call = req[r].call => s = r

(* The requests that have made the controller they could make.               *)
Past == {r \in Requests : pc[r] \notin {"new", "wait", "go", "folder", "load"}}

(* Controllers are made one after the other, each for a request.             *)
OneEach ==
  /\ Used = 1..Cardinality(Used)
  /\ Cardinality(Used) <= Cardinality(Past)
  /\ \A k \in Used : ctl[k].call \in Made

Holders(k) == {r \in Requests : pc[r] = "holding" /\ req[r].ctl = k}

(* Every hold is one of a request's, and keeps the writer.                   *)
HoldsCounted ==
  \A k \in Used :
    /\ ctl[k].holds = Cardinality(Holders(k))
    /\ ctl[k].holds > 0 => ctl[k].writer

(* A writer's lock is in the folder, wherever that was moved.                *)
LocksHeld == \A k \in Used : ctl[k].writer => lock[ctl[k].call] = k

KnownHere ==
  /\ \A c \in Calls : Known(c) => c \in index /\ ctl[known[c]].dir = DirOf(c)
  /\ \A k \in Used : Live(k) => known[ctl[k].call] = k

ManagerInv ==
  /\ TypeOK /\ Blanks /\ Asked /\ StageHeld /\ Loads /\ Restored
  /\ OneEach /\ HoldsCounted /\ LocksHeld /\ KnownHere

(* Where a restart and a start do not meet: neither looks for the live call  *)
(* while the other is between its look and its controller, and while a start *)
(* makes its folder no call is live.                                         *)
Apart ==
  \A r, s \in Requests :
    /\ Asks(r, {"restart"}) /\ pc[r] \in {"wait", "go", "load", "loaded"} =>
         ~(Asks(s, {"start", "attach"}) /\ pc[s] \in {"wait", "go"})
    /\ Asks(r, {"restart"}) /\ pc[r] \in {"go", "load", "loaded"} => stage = Nobody

StageAlone == stage # Nobody => \A k \in Used : ~Live(k)

OnlyOneLive == \A j, k \in Used : Live(j) /\ Live(k) => j = k

OneLiveInv == ManagerInv /\ Apart /\ StageAlone /\ OnlyOneLive
=============================================================================
