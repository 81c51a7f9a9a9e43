------------------------------ MODULE JobStore ------------------------------
(***************************************************************************)
(* The job store of server mode (src/main/server/store.ts): the jobs table *)
(* and the feed of events, beside the outbox (Outbox), and the uploads.    *)
(*                                                                         *)
(* An operator gives what one transaction makes of a table; JobQueue says  *)
(* when.  A job goes by its number, its place in the order of submission.  *)
(* Of a job's options only what decides where, when and how it runs and    *)
(* what its end writes is kept (its kind).                                 *)
(***************************************************************************)
EXTENDS Outbox, Sequences

CONSTANTS
  Kinds,      \* the jobs that may be submitted
  Models,     \* the recognizers jobs name
  Remotes,    \* the entries of server.remotes, in their order
  Nowhere,    \* no remote
  MaxStarts   \* MAX_JOB_STARTS

ASSUME StartsAssumption == MaxStarts \in Nat \ {0}

RemoteSet == {Remotes[i] : i \in DOMAIN Remotes}

ASSUME RemotesAssumption == Remotes \in Seq(RemoteSet) /\ Nowhere \notin RemoteSet

(* prio: its priority; lane: it was submitted interactive; route: where its  *)
(* request allows it to run; listed: the remotes' entries name its preset or *)
(* model; tells: whether its end is in the feed, and also delivered; keep:   *)
(* keep_audio.                                                               *)
KindSet ==
  [prio : Nat, model : Models, lane : BOOLEAN, route : {"any", "local", "remote"},
   listed : BOOLEAN, tells : {"nothing", "feed", "callback"}, keep : BOOLEAN]

ASSUME KindsAssumption == Kinds \subseteq KindSet

VARIABLES
  row,       \* the jobs table
  feed,      \* the types of each job's events, in order
  uploads    \* the jobs whose upload is on disk

storeVars == <<row, feed, uploads>>

NoRow == [status |-> "none"]
GoneRow == [status |-> "gone"]

Open == {"queued", "running"}
Over == {"done", "failed"}

JobRows ==
  [status : Open \cup Over, kind : KindSet, route : {"any", "local", "remote"},
   remote : RemoteSet \cup {Nowhere}, starts : 0..MaxStarts]

Rows == JobRows \cup {NoRow, GoneRow}

StoreTypeOK ==
  /\ row \in [Jobs -> Rows]
  /\ feed \in [Jobs -> Seq({"completed", "failed", "cancelled"})]
  /\ uploads \in SUBSET Jobs

StoreInit ==
  /\ row = [j \in Jobs |-> NoRow]
  /\ feed = [j \in Jobs |-> <<>>]
  /\ uploads = {}

In(table, statuses) == {j \in Jobs : table[j].status \in statuses}
Queued == In(row, {"queued"})
Running == In(row, {"running"})
Held(table) == In(table, Open \cup Over)

(* queued(): highest priority first, then the order of submission.           *)
Before(i, j) ==
  \/ row[i].kind.prio > row[j].kind.prio
  \/ row[i].kind.prio = row[j].kind.prio /\ i < j

First(S) == CHOOSE i \in S : \A j \in S \ {i} : Before(i, j)

Oldest(S) == CHOOSE i \in S : \A j \in S : i <= j

(* submit: the next number.                                                  *)
Inserted(table, j, kind, route) ==
  [table EXCEPT ![j] = [status |-> "queued", kind |-> kind, route |-> route,
                        remote |-> Nowhere, starts |-> 0]]

(* markRunning: this process starts the job.                                 *)
MarkedRunning(table, j) ==
  [table EXCEPT ![j].status = "running", ![j].starts = @ + 1]

(* claim: a remote runs it, so no start is counted.                          *)
Claimed(table, j) == [table EXCEPT ![j].status = "running"]

SetRemote(table, j, remote) == [table EXCEPT ![j].remote = remote]

SetRoute(table, j) == [table EXCEPT ![j].route = "local"]

(* requeue, requeueRunning.                                                  *)
Requeued(table, S) ==
  [j \in Jobs |-> IF j \in S /\ table[j].status = "running"
                  THEN [table[j] EXCEPT !.status = "queued"] ELSE table[j]]

(* finish: a running job may end either way, a queued one only fail.         *)
Finishable(table, S, status) ==
  {j \in S : table[j].status \in IF status = "done" THEN {"running"} ELSE Open}

EventOf(status) == IF status = "done" THEN "completed" ELSE "failed"

(* Mutant: the event and the delivery are a transaction of their own, which  *)
(* a crash may prevent.                                                      *)
FinishInTwo(table, S, status) ==
  LET ends == Finishable(table, S, status)
      told == {j \in ends : table[j].kind.tells # "nothing"}
  IN /\ row' = [j \in Jobs |-> IF j \in ends THEN [table[j] EXCEPT !.status = status]
                                             ELSE table[j]]
     /\ \E reached \in {{}, told} :
          /\ feed' = [j \in Jobs |-> IF j \in reached
                                     THEN Append(feed[j], EventOf(status)) ELSE feed[j]]
          /\ outbox' = Announced(outbox, {j \in reached : table[j].kind.tells = "callback"})

(* The three writes of one transaction: the row, its event, its delivery.    *)
Finish(table, S, status) ==
  LET ends == Finishable(table, S, status)
  IN /\ row' = [j \in Jobs |-> IF j \in ends THEN [table[j] EXCEPT !.status = status]
                                             ELSE table[j]]
     /\ feed' = [j \in Jobs |-> IF j \in ends /\ table[j].kind.tells # "nothing"
                                THEN Append(feed[j], EventOf(status)) ELSE feed[j]]
     /\ outbox' = Announced(outbox, {j \in ends : table[j].kind.tells = "callback"})

(* remove: a job that had not ended is announced as cancelled, in the feed   *)
(* only; what is pending in the outbox is withdrawn.                         *)
RemoveJobs(S) ==
  /\ row' = [j \in Jobs |-> IF j \in S THEN GoneRow ELSE row[j]]
  /\ feed' = [j \in Jobs |->
       IF j \in S /\ row[j].status \in Open /\ row[j].kind.tells # "nothing"
       THEN Append(feed[j], "cancelled") ELSE feed[j]]
  /\ outbox' = Withdrawn(outbox, S)

(* uploads(): the files a row names.                                         *)
Named(table) ==
  {j \in Held(table) : table[j].status \in Open \/ table[j].kind.keep}
=============================================================================
