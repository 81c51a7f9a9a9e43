------------------------------- MODULE MCJobs -------------------------------
(* The job service on a few jobs.  A kind names what a client asks for; the  *)
(* sets below are the clients of each run.                                   *)
EXTENDS JobQueue

Kind(model, tells) ==
  [prio |-> 0, model |-> model, lane |-> FALSE, route |-> "any", listed |-> FALSE,
   tells |-> tells, keep |-> FALSE]

Dictation(model) == [Kind(model, "nothing") EXCEPT !.lane = TRUE]

(* This server alone: two models, one of them on Metal, a job that keeps its *)
(* audio, and dictations on both, which the lane has room for one of.        *)
HereKinds ==
  {Kind("cpu", "feed"), [Kind("gpu", "nothing") EXCEPT !.keep = TRUE], Dictation("gpu"),
   Dictation("cpu")}

(* Remotes: a job a remote may run and one that only a remote can.           *)
ThereKinds ==
  {[Kind("cpu", "feed") EXCEPT !.listed = TRUE],
   [Kind("cpu", "feed") EXCEPT !.route = "remote", !.prio = 1]}

(* Clients that are called back.                                             *)
ToldKinds == {Kind("cpu", "callback")}

NoRemotes == <<>>
OneRemote == <<"r1">>
One == [j \in Jobs |-> "one"]
Apart == [j \in Jobs |-> j]
=============================================================================
