------------------------------ MODULE JobLife ------------------------------
(***************************************************************************)
(* What the job server promises of each job, whatever runs it and however  *)
(* often the server dies: it is open until it ends, it ends once, and the  *)
(* step that ends it is the step that puts its end in the feed and, when   *)
(* the client asked to be called back, in the outbox.  A deleted job stays *)
(* deleted, and what the feed said of a job it goes on saying.             *)
(*                                                                         *)
(* JobQueue implements it (JobQueue!Life).                                 *)
(***************************************************************************)
CONSTANT Jobs

VARIABLE life   \* per job: its state, who is told of its end, what was said, and to deliver

Unborn == [state |-> "none", tells |-> "nothing", said |-> <<>>, delivery |-> FALSE]

Init == life = [j \in Jobs |-> Unborn]

(* A client submits a job.                                                   *)
Submit(j, tells) ==
  /\ life[j].state = "none"
  /\ life' = [life EXCEPT ![j].state = "open", ![j].tells = tells]

(* What the end of an open job makes of it.                                  *)
Ended(l, state) ==
  [l EXCEPT !.state = state,
            !.said = IF l.tells = "nothing" THEN <<>>
                     ELSE IF state = "done" THEN <<"completed">> ELSE <<"failed">>,
            !.delivery = l.tells = "callback"]

(* What its deletion makes of a job: one still open is announced as          *)
(* cancelled, in the feed only.                                              *)
Deleted(l) ==
  [Unborn EXCEPT !.state = "gone",
                 !.said = IF l.state = "open" /\ l.tells # "nothing"
                          THEN <<"cancelled">> ELSE l.said,
                 !.delivery = l.delivery]

(* Several jobs end together when a model they wait for cannot be had, and   *)
(* several are deleted together when they are old.                           *)
End ==
  \A j \in Jobs :
    \/ life'[j] = life[j]
    \/ life[j].state = "open" /\ life'[j] \in {Ended(life[j], s) : s \in {"done", "failed"}}

Delete ==
  \A j \in Jobs :
    \/ life'[j] = life[j]
    \/ life[j].state \in {"open", "done", "failed"} /\ life'[j] = Deleted(life[j])

Next ==
  \/ \E j \in Jobs, tells \in {"nothing", "feed", "callback"} : Submit(j, tells)
  \/ (End \/ Delete) /\ life' = [j \in Jobs |-> life'[j]]

Spec == Init /\ [][Next]_life
=============================================================================
