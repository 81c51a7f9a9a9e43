---------------------------- MODULE JobInvariant ----------------------------
(***************************************************************************)
(* The inductive invariant of JobQueue and of the outbox it owns: what a   *)
(* server that died holds, what is written of a job that has not ended,    *)
(* which uploads are on disk, and who runs which job; and, beside it, that *)
(* no job that could run waits.  JobQueue_proofs proves them and what      *)
(* follows from them.                                                      *)
(***************************************************************************)
EXTENDS JobQueue

(* A server that died holds nothing but the store, the files and what it     *)
(* was configured with.                                                      *)
DownIsEmpty ==
  ~up => /\ slots = [i \in Places |-> NoWorker] /\ lane = {}
         /\ sent = [j \in Jobs |-> NotSent] /\ inFlight = [r \in RemoteSet |-> 0]
         /\ trying = [j \in Jobs |-> {}] /\ ~timer /\ ~owed
         /\ clean = {} /\ turn = "idle"

(* Nothing is told of a job before its end.                                  *)
NotToldYet ==
  \A j \in Jobs :
    row[j].status \in Open \cup {"none"} => outbox[j] = NoDelivery /\ feed[j] = <<>>

(* A try that is out is the last one counted.  A delivery that waits for its *)
(* next try has one left, and a crash gives a try back.                      *)
TriesInv ==
  \A j \in Jobs :
    /\ outbox[j].state = "none" => outbox[j] = NoDelivery
    /\ outbox[j].state # "none" => outbox[j].tries <= MaxTries + crashes
    /\ outbox[j].state = "pending" => outbox[j].why = "none"
    /\ outbox[j].state = "pending" /\ trying[j] = {} => outbox[j].tries < MaxTries + crashes
    /\ outbox[j].why = "tries" => outbox[j].tries >= MaxTries
    /\ trying[j] \subseteq {outbox[j].tries}

OutInv == NotToldYet /\ TriesInv

(* The uploads on disk are those a row names, and those of the jobs whose    *)
(* transaction is done and whose files are not.                              *)
UploadsInv ==
  /\ Named(row) \subseteq uploads
  /\ up => uploads \subseteq Named(row) \cup clean

(* Jobs that wait have a start left, also while the server is down.          *)
StartsInv ==
  \A j \in Jobs : j \in Queued \/ (up /\ j \in OnRemotes) => row[j].starts < MaxStarts

(* HeldOnce, and what makes it inductive: what is left of the request of a   *)
(* deleted job names no job that could be sent again.                        *)
HeldInv ==
  /\ HeldOnce
  /\ \A j \in Jobs : sent[j].phase = "abandoned" => row[j].status = "gone"

(* MetalAlone without counting.                                              *)
MetalInv ==
  \A i, j \in InSlots \cup lane :
    row[i].kind.model \in Metal /\ row[j].kind.model \in Metal => i = j

JobInv ==
  TypeOK /\ DownIsEmpty /\ OutInv /\ UploadsInv /\ StartsInv /\ HeldInv /\ MetalInv

(* Where a job that is open may run: a dictation here alone, and one that    *)
(* only a remote can run was taken while there were remotes.                 *)
RouteFits(r) ==
  /\ r.kind.lane => r.route = "local"
  /\ r.route = "remote" => Configured

RoutesInv == \A j \in Jobs : row[j].status \in Open => RouteFits(row[j])

(* After dispatch() no job is left that a remote would take, and after       *)
(* pump() none that has a Worker here, nor one whose model nobody fetches.   *)
NothingToSend == \A j \in Sendable : held[j] = "lapsed"

NothingToStart ==
  /\ LaneHasRoom => LaneReady = {} /\ Missing(ForLane) \subseteq fetching
  /\ QueueHasRoom => QueueReady = {} /\ Missing(ForQueue) \subseteq fetching

WorkInv ==
  up => /\ turn \in {"idle", "pump"} => NothingToSend
        /\ turn = "idle" => NothingToStart
=============================================================================
