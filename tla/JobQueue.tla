------------------------------ MODULE JobQueue ------------------------------
(***************************************************************************)
(* The job service of server mode: JobService (src/main/server/jobs.ts)    *)
(* and Remotes (src/main/server/remotes.ts) over the job store, with the   *)
(* deliverer it owns (Outbox) and what it sees of the model store          *)
(* (src/main/server/model-store.ts).                                       *)
(*                                                                         *)
(* The service runs on one thread.  One action is a handler from one await *)
(* to the next; the loops of dispatch() and pump() take one job per step   *)
(* (DispatchStep, PumpStep), and while one of them is under way (turn)     *)
(* nothing happens but its next step, or a crash.  The same holds between  *)
(* a transaction and what its caller does with the files, the remote and   *)
(* the deliverer (CleanUp).                                                *)
(*                                                                         *)
(* The remotes' answers and the Workers' results come in any order, or not *)
(* at all.  A graceful close ends like a crash: what ran stays running.    *)
(*                                                                         *)
(* A definition introduced by "Mutant:" is no part of the specification.   *)
(***************************************************************************)
EXTENDS JobStore

CONSTANTS
  Concurrency,  \* server.concurrency
  LaneSlots,    \* server.dictation_slots
  QueueMax,     \* server.queue_max, 0 for none
  PassLimit,    \* WARM_PASS_LIMIT
  InFlight,     \* REMOTE_IN_FLIGHT
  Metal,        \* the models whose engine runs on Metal
  Preloaded,    \* the models on disk when the server is first started
  Engines,      \* whether a start of the server may find a speech engine
  Overflows,    \* the values server.remotes_overflow may take
  MaxFaults     \* bound: requests the remotes fail, refuse or lose

ASSUME SlotsAssumption == Concurrency \in Nat \ {0} /\ LaneSlots \in Nat
ASSUME LimitsAssumption == {QueueMax, PassLimit, InFlight, MaxFaults} \subseteq Nat
ASSUME ModelsAssumption == Metal \subseteq Models /\ Preloaded \subseteq Models
ASSUME ChoicesAssumption == Engines \subseteq BOOLEAN /\ Overflows \subseteq BOOLEAN

(* pick and routeOf give a remote, which none of their words is.             *)
ASSUME WordsAssumption == {"local", "wait", "busy", "pending", "nobody"} \cap RemoteSet = {}

VARIABLES
  engine,      \* noEngine() is null
  overflow,    \* server.remotes_overflow
  slots,       \* the queue's places for a Worker: its job, and the model it holds
  lane,        \* the jobs that run in the dictation lane
  passed,      \* passedOver
  sent,        \* the jobs out on a remote
  held,        \* heldUntil: the jobs a remote turned away with 409
  rstate,      \* what each remote's last probe or failed request said
  offering,    \* the remotes that have offered the jobs' names since start
  inFlight,    \* the jobs counted as held by each remote
  probing,     \* the remotes a probe of which is out
  onDisk,      \* the models on disk
  fetching,    \* the models downloading
  turn,        \* the loop that is under way
  clean,       \* jobs whose transaction is done and whose files and so on are not
  faults       \* requests the remotes failed so far

queueVars == <<slots, lane, passed>>
remoteVars == <<sent, held, rstate, offering, inFlight, probing>>
modelVars == <<onDisk, fetching>>
setVars == <<engine, overflow>>
turnVars == <<turn, clean>>
procVars == <<up, crashes, revoked>>

vars == <<deliveryVars, storeVars, queueVars, remoteVars, modelVars, setVars, turnVars, faults>>

NoJob == 0
NoModel == "none"

(* A place without a Worker.                                                 *)
NoWorker == [job |-> NoJob, model |-> NoModel]

Places == 1..Concurrency

NotSent == [to |-> Nowhere, phase |-> "none"]

(* "abandoned": the job was deleted and its request has not ended yet.       *)
Phases == {"upload", "follow", "abandoned"}

(* "up" offers the jobs' names, "stalled" too but reports a stalled job;     *)
(* "empty" is up and offers none of them; "down" stands for refused as well. *)
RemoteStates == {"unknown", "up", "stalled", "empty", "down"}

TypeOK ==
  /\ OutboxTypeOK
  /\ StoreTypeOK
  /\ {engine, overflow} \subseteq BOOLEAN
  /\ slots \in [Places -> [job : Jobs \cup {NoJob}, model : Models \cup {NoModel}]]
  /\ lane \in SUBSET Jobs
  /\ Cardinality(lane) <= LaneSlots
  /\ passed \in [Jobs -> 0..PassLimit]
  /\ sent \in [Jobs -> [to : RemoteSet, phase : Phases] \cup {NotSent}]
  /\ held \in [Jobs -> {"no", "waiting", "lapsed"}]
  /\ rstate \in [RemoteSet -> RemoteStates]
  /\ {offering, probing} \subseteq SUBSET RemoteSet
  /\ inFlight \in [RemoteSet -> 0..MaxJobs]
  /\ {onDisk, fetching} \subseteq SUBSET Models
  /\ turn \in {"idle", "sweep", "dispatch", "pump"}
  /\ clean \in SUBSET Jobs
  /\ faults \in 0..MaxFaults

-----------------------------------------------------------------------------
(* What the service knows.                                                   *)

Configured == RemoteSet # {}

LaneSize == IF engine THEN LaneSlots ELSE 0

InSlots == {slots[i].job : i \in Places} \ {NoJob}

OnRemotes == {j \in Jobs : sent[j].phase \in {"upload", "follow"}}

SentTo(r) == {j \in Jobs : sent[j].to = r}

(* Mutant: the dictation lane is forgotten.                                  *)
MetalBusyInSlots == \E j \in InSlots : row[j].kind.model \in Metal

(* Two models on Metal never run together, in any Worker (metalBusy).        *)
MetalBusy == \E j \in InSlots \cup lane : row[j].kind.model \in Metal

Ready(j) ==
  /\ row[j].kind.model \in onDisk
  /\ ~(row[j].kind.model \in Metal /\ MetalBusy)

Offers(r) == rstate[r] \in {"up", "stalled"}

(* pick: a remote with room, or why there is none.  A job this server could  *)
(* run itself goes only where an entry names it.                             *)
Pick(kind, first) ==
  LET asked == IF first /\ ~kind.listed THEN {} ELSE DOMAIN Remotes
      able  == {i \in asked : rstate[Remotes[i]] = "up"}
      free  == {i \in able : inFlight[Remotes[i]] < InFlight}
      unknown == first /\ \E i \in asked : rstate[Remotes[i]] = "unknown"
  IN IF free # {} THEN Remotes[Oldest(free)]
     ELSE IF unknown THEN "pending"
     ELSE IF able # {} THEN "busy"
     ELSE "nobody"

(* routeOf, with overflowRoute: a remote, "local" or "wait".                 *)
RouteOf(j) ==
  LET route == IF engine THEN row[j].route ELSE "remote"
      picked == Pick(row[j].kind, route # "remote")
  IN IF row[j].route = "local" \/ ~Configured
     THEN IF engine THEN "local" ELSE "wait"
     ELSE IF row[j].remote # Nowhere /\ Offers(row[j].remote) THEN row[j].remote
     ELSE IF picked = "busy" /\ overflow /\ route # "remote" THEN "local"
     ELSE IF picked \in {"busy", "pending"} THEN "wait"
     ELSE IF picked # "nobody" THEN picked
     ELSE IF route = "remote" THEN "wait" ELSE "local"

(* The jobs dispatch() may send.                                             *)
Sendable == {j \in Queued : held[j] # "waiting" /\ RouteOf(j) \in RemoteSet}

(* failStranded: with no engine, the queued jobs that nothing will ever run. *)
Stranded(table, has, states, offers) ==
  LET settled == \A r \in RemoteSet : states[r] # "unknown"
  IN {j \in In(table, {"queued"}) :
        /\ ~has
        /\ ~(Configured /\ table[j].route = "remote")
        /\ ~(Configured /\ table[j].route = "any" /\ ~(settled /\ offers = {}))}

(* No transaction waits for what follows it.                                 *)
Tidy == clean = {} /\ ~owed

(* Nothing is under way on the service's thread.                             *)
Idle == up /\ turn = "idle" /\ Tidy

-----------------------------------------------------------------------------
Init ==
  /\ up = FALSE /\ crashes = 0 /\ faults = 0
  /\ OutboxInit /\ StoreInit
  /\ engine = TRUE
  /\ overflow \in Overflows
  /\ slots = [i \in Places |-> NoWorker] /\ lane = {}
  /\ passed = [j \in Jobs |-> 0]
  /\ sent = [j \in Jobs |-> NotSent]
  /\ held = [j \in Jobs |-> "no"]
  /\ rstate = [r \in RemoteSet |-> "unknown"]
  /\ offering = {} /\ probing = {}
  /\ inFlight = [r \in RemoteSet |-> 0]
  /\ onDisk = Preloaded /\ fetching = {}
  /\ turn = "idle" /\ clean = {}

(* conclude: the store's transaction; the files and the deliverer follow.    *)
Conclude(table, S, status) ==
  /\ Finish(table, S, status)
  /\ passed' = [j \in Jobs |-> IF j \in S THEN 0 ELSE passed[j]]
  /\ clean' = clean \cup S
  /\ owed' = (owed \/ \E j \in Finishable(table, S, status) : table[j].kind.tells = "callback")
  /\ UNCHANGED <<trying, timer, revoked>>

NothingConcluded == UNCHANGED <<feed, outboxVars, revoked, passed, clean>>

(* Mutant: what a deleted job leaves on disk is not deleted.                 *)
CleanUpEnded ==
  /\ up /\ ~Tidy
  /\ uploads' = uploads \ {j \in clean \ Named(row) : row[j].status # "gone"}
  /\ clean' = {}
  /\ IF owed THEN Kick(outbox) ELSE UNCHANGED <<outbox, trying, timer>>
  /\ owed' = FALSE
  /\ UNCHANGED <<procVars, row, feed, queueVars, remoteVars, modelVars, setVars, turn, faults>>

(* What follows a transaction: an upload nothing names goes, unless the job  *)
(* keeps it, and a delivery that was written is tried.                       *)
CleanUp ==
  /\ up /\ ~Tidy
  /\ uploads' = uploads \ (clean \ Named(row))
  /\ clean' = {}
  /\ IF owed THEN Kick(outbox) ELSE UNCHANGED <<outbox, trying, timer>>
  /\ owed' = FALSE
  /\ UNCHANGED <<procVars, row, feed, queueVars, remoteVars, modelVars, setVars, turn, faults>>

-----------------------------------------------------------------------------
(* The process.                                                              *)

(* Mutant: every job found running is queued again.                          *)
StartAgain ==
  \E has \in Engines :
    LET queued  == Requeued(row, Running)
        fails   == Stranded(queued, has, rstate, {})
    IN /\ ~up
       /\ up' = TRUE
       /\ engine' = has
       /\ Finish(queued, fails, "failed")
       /\ uploads' = uploads \cap Named(queued)
       /\ clean' = fails
       /\ owed' = TRUE
       /\ probing' = RemoteSet
       /\ turn' = "sweep"
       /\ UNCHANGED <<crashes, revoked, trying, timer, overflow, queueVars, sent, held, rstate,
                      offering, inFlight, modelVars, faults>>

(* start(): what the last process left running is queued again, in its       *)
(* place, but not what was running at MAX_JOB_STARTS stops; uploads no row   *)
(* names go; then old jobs do (SweepAtStart); the outbox is tried and the    *)
(* remotes are probed.                                                       *)
Start ==
  \E has \in Engines :
    LET stopped == {j \in Running : row[j].starts >= MaxStarts}
        queued  == Requeued(row, Running \ stopped)
        fails   == stopped \cup Stranded(queued, has, rstate, {})
    IN /\ ~up
       /\ up' = TRUE
       /\ engine' = has
       /\ Finish(queued, fails, "failed")
       /\ uploads' = uploads \cap Named(queued)
       /\ clean' = fails
       /\ owed' = TRUE
       /\ probing' = RemoteSet
       /\ turn' = "sweep"
       /\ UNCHANGED <<crashes, revoked, trying, timer, overflow, queueVars, sent, held, rstate,
                      offering, inFlight, modelVars, faults>>

(* Everything but the store and the files is gone.  With it go the requests  *)
(* to the remotes and the downloads.                                         *)
Crash ==
  /\ up /\ crashes < MaxCrashes
  /\ up' = FALSE
  /\ crashes' = crashes + 1
  /\ DelivererDies
  /\ slots' = [i \in Places |-> NoWorker] /\ lane' = {}
  /\ passed' = [j \in Jobs |-> 0]
  /\ sent' = [j \in Jobs |-> NotSent]
  /\ held' = [j \in Jobs |-> "no"]
  /\ rstate' = [r \in RemoteSet |-> "unknown"]
  /\ offering' = {} /\ probing' = {}
  /\ inFlight' = [r \in RemoteSet |-> 0]
  /\ fetching' = {}
  /\ turn' = "idle" /\ clean' = {}
  /\ UNCHANGED <<storeVars, onDisk, setVars, faults>>

-----------------------------------------------------------------------------
(* The clients.                                                              *)

Depth == Cardinality({j \in In(row, Open) : ~row[j].kind.lane})

(* submit, the job admitted: one that only a remote can run once a remote    *)
(* has offered it.  A dictation takes the lane while there is one; otherwise *)
(* it queues like any other.                                                 *)
Submit(kind) ==
  LET j == Oldest(Jobs \ {i \in Jobs : row[i].status # "none"})
      dictation == kind.lane /\ LaneSize > 0
      route == IF dictation THEN "local" ELSE IF engine THEN kind.route ELSE "remote"
  IN /\ Idle
     /\ \E i \in Jobs : row[i].status = "none"
     /\ dictation \/ QueueMax = 0 \/ Depth < QueueMax
     /\ route = "remote" => offering # {}
     /\ row' = Inserted(row, j, [kind EXCEPT !.lane = dictation], route)
     /\ uploads' = uploads \cup {j}
     /\ turn' = "dispatch"
     /\ UNCHANGED <<procVars, outboxVars, feed, queueVars, remoteVars, modelVars, setVars, clean,
                    faults>>

(* Mutant: the slot is not free before the run has asked for its Worker.     *)
VacatedLoaded(S, loads) ==
  [i \in Places |->
     IF slots[i].job \in S /\ loads
     THEN [job |-> NoJob, model |-> row[slots[i].job].kind.model]
     ELSE slots[i]]

(* A Worker whose job is over or was deleted, with the model it now holds.   *)
Vacated(S, loads) ==
  [i \in Places |->
     IF slots[i].job \in S
     THEN [job |-> NoJob,
           model |-> IF loads THEN row[slots[i].job].kind.model ELSE slots[i].model]
     ELSE slots[i]]

(* Mutant: a deleted job's slot is freed and pump() is not called.           *)
TurnAfterDropIdle(S) == "idle"

TurnAfterDrop(S) == IF S \cap (InSlots \cup lane) # {} THEN "pump" ELSE "idle"

(* drop, dropped: a running job's slot is free at once, and pump() follows   *)
(* only then; a request to a remote is aborted and its run unwinds later.    *)
(* The slot's Worker holds the model from the time its run asked for it.     *)
Drop(S, loads) ==
  /\ RemoveJobs(S)
  /\ slots' = Vacated(S, loads)
  /\ lane' = lane \ S
  /\ passed' = [j \in Jobs |-> IF j \in S THEN 0 ELSE passed[j]]
  /\ held' = [j \in Jobs |-> IF j \in S THEN "no" ELSE held[j]]
  /\ sent' = [j \in Jobs |-> IF j \in S /\ sent[j] # NotSent
                             THEN [sent[j] EXCEPT !.phase = "abandoned"] ELSE sent[j]]
  /\ clean' = S
  /\ UNCHANGED <<procVars, trying, timer, uploads, rstate, offering, inFlight, probing,
                 modelVars, setVars, faults>>

(* A client deletes a job.                                                   *)
Delete(j) ==
  /\ Idle
  /\ j \in Held(row)
  /\ \E loads \in BOOLEAN : Drop({j}, loads)
  /\ turn' = TurnAfterDrop({j})
  /\ UNCHANGED owed

(* expired: what was submitted before some time, kept audio apart.           *)
Expired(last) == {j \in Held(row) : j <= last /\ ~row[j].kind.keep}

(* sweepJobs, by its timer.                                                  *)
Sweep(last) ==
  /\ Idle
  /\ Expired(last) # {}
  /\ \E loads \in BOOLEAN : Drop(Expired(last), loads)
  /\ turn' = TurnAfterDrop(Expired(last))
  /\ UNCHANGED owed

(* The sweep of start(), and the kick that follows it.                       *)
SweepAtStart(last) ==
  /\ up /\ Tidy /\ turn = "sweep"
  /\ Drop(Expired(last), FALSE)
  /\ turn' = "dispatch"
  /\ owed' = TRUE

-----------------------------------------------------------------------------
(* The jobs that run here.                                                   *)

(* Whether a job the lane has no place for is the queue's.                   *)
ForQueue == {j \in Queued : ~(LaneSize > 0 /\ row[j].kind.lane) /\ RouteOf(j) = "local"}
ForLane == {j \in Queued : row[j].kind.lane}

Missing(S) == {row[j].kind.model : j \in S} \ onDisk

(* nextInteractive: the oldest that can run.  Downloads are started for      *)
(* those before it.                                                          *)
LaneReady == {j \in ForLane : Ready(j)}
LaneFetches ==
  Missing(IF LaneReady = {} THEN ForLane ELSE {j \in ForLane : j < Oldest(LaneReady)})

(* nextRunnable: the first that can run, or one of its priority on a model   *)
(* an idle Worker holds, PassLimit times at most.                            *)
QueueReady == {j \in ForQueue : Ready(j)}
QueueFetches ==
  Missing(IF QueueReady = {} THEN ForQueue
          ELSE {j \in ForQueue : Before(j, First(QueueReady))})

Warm == {slots[i].model : i \in {k \in Places : slots[k].job = NoJob}} \ {NoModel}

WarmAfter(head) ==
  {j \in QueueReady : /\ row[j].kind.prio = row[head].kind.prio
                      /\ j > head
                      /\ row[j].kind.model \in Warm}

NextRunnable ==
  LET head == First(QueueReady)
  IN IF \/ Warm = {}
        \/ row[head].kind.model \in Warm
        \/ passed[head] >= PassLimit
        \/ WarmAfter(head) = {}
     THEN head
     ELSE Oldest(WarmAfter(head))

(* slotFor: a Worker that holds the model, else a new one, else an idle one.  *)
(* The order of the array is not kept, so which idle Worker gives up its     *)
(* model is left open.                                                       *)
PlacesFor(j) ==
  LET idle == {i \in Places : slots[i].job = NoJob}
      warm == {i \in idle : slots[i].model = row[j].kind.model}
      free == {i \in idle : slots[i] = NoWorker}
  IN IF warm # {} THEN warm ELSE IF free # {} THEN free ELSE idle

(* Mutant: the lane takes one more.                                          *)
LaneHasRoomForOne == Cardinality(lane) <= LaneSize

LaneHasRoom == Cardinality(lane) < LaneSize
QueueHasRoom == Cardinality(InSlots) < Concurrency

(* pumpLane and start1.                                                      *)
StartInLane ==
  LET j == Oldest(LaneReady)
  IN /\ LaneHasRoom /\ LaneReady # {}
     /\ row' = MarkedRunning(row, j)
     /\ lane' = lane \cup {j}
     /\ passed' = [passed EXCEPT ![j] = 0]
     /\ fetching' = fetching \cup LaneFetches
     /\ UNCHANGED <<slots, turn>>

(* pump and start1.                                                          *)
StartInSlot ==
  LET j == NextRunnable
      head == First(QueueReady)
      counted == IF j = head THEN passed ELSE [passed EXCEPT ![head] = @ + 1]
  IN /\ ~(LaneHasRoom /\ LaneReady # {})
     /\ QueueHasRoom /\ QueueReady # {}
     /\ row' = MarkedRunning(row, j)
     /\ \E i \in PlacesFor(j) : slots' = [slots EXCEPT ![i].job = j]
     /\ passed' = [counted EXCEPT ![j] = 0]
     /\ fetching' = fetching \cup (IF LaneHasRoom THEN LaneFetches ELSE {}) \cup QueueFetches
     /\ UNCHANGED <<lane, turn>>

(* Nothing is left to start.                                                 *)
PumpEnds ==
  /\ ~(LaneHasRoom /\ LaneReady # {})
  /\ ~(QueueHasRoom /\ QueueReady # {})
  /\ fetching' = fetching \cup (IF LaneHasRoom THEN LaneFetches ELSE {})
                          \cup (IF QueueHasRoom THEN QueueFetches ELSE {})
  /\ turn' = "idle"
  /\ UNCHANGED <<row, queueVars>>

PumpStep ==
  /\ up /\ Tidy /\ turn = "pump"
  /\ StartInLane \/ StartInSlot \/ PumpEnds
  /\ UNCHANGED <<procVars, outboxVars, feed, uploads, remoteVars, onDisk, setVars, clean, faults>>

(* run, to its end: the job ends either way and start1 frees the slot.  A    *)
(* run may fail before its Worker holds the model.                           *)
RunEnds(j, status, loads) ==
  /\ Idle
  /\ j \in InSlots \cup lane
  /\ status = "done" => loads
  /\ Conclude(row, {j}, status)
  /\ slots' = Vacated({j}, loads)
  /\ lane' = lane \ {j}
  /\ turn' = "pump"
  /\ UNCHANGED <<up, crashes, uploads, remoteVars, modelVars, setVars, faults>>

(* releaseIdle: the time of an idle Worker no queued job needs is up.        *)
WorkerReleased(i) ==
  /\ Idle
  /\ slots[i].job = NoJob /\ slots[i] # NoWorker
  /\ ~\E j \in Queued : row[j].kind.model = slots[i].model
  /\ slots' = [slots EXCEPT ![i] = NoWorker]
  /\ UNCHANGED <<procVars, outboxVars, storeVars, lane, passed, remoteVars, modelVars, setVars,
                 turnVars, faults>>

-----------------------------------------------------------------------------
(* The models.                                                               *)

(* A download ends.  One that failed for good, or was cancelled, takes the   *)
(* queued jobs that need the model with it (failWaiting).                    *)
DownloadEnds(m, ok) ==
  /\ Idle
  /\ m \in fetching
  /\ fetching' = fetching \ {m}
  /\ onDisk' = IF ok THEN onDisk \cup {m} ELSE onDisk
  /\ turn' = "pump"
  /\ IF ok
     THEN UNCHANGED row /\ NothingConcluded
     ELSE Conclude(row, {j \in Queued : row[j].route # "remote" /\ row[j].kind.model = m},
                   "failed")
  /\ UNCHANGED <<up, crashes, uploads, slots, lane, remoteVars, setVars, faults>>

(* sweepModels, delete: a model goes unless a job or a Worker needs it.      *)
InUse == {row[j].kind.model : j \in {i \in In(row, Open) : row[i].route # "remote"}}
         \cup {slots[i].model : i \in Places}

ModelGoes(m) ==
  /\ Idle
  /\ m \in onDisk \ InUse
  /\ onDisk' = onDisk \ {m}
  /\ UNCHANGED <<procVars, outboxVars, storeVars, queueVars, remoteVars, fetching, setVars,
                 turnVars, faults>>

-----------------------------------------------------------------------------
(* The remotes.                                                              *)

(* dispatch: one queued job is claimed and its request begins.               *)
DispatchStep ==
  LET j == First(Sendable)
      r == RouteOf(j)
  IN /\ up /\ Tidy /\ turn = "dispatch"
     /\ IF Sendable = {}
        THEN /\ turn' = "pump"
             /\ UNCHANGED <<row, sent, held, inFlight>>
        ELSE /\ row' = Claimed(row, j)
             /\ held' = [held EXCEPT ![j] = "no"]
             /\ inFlight' = [inFlight EXCEPT ![r] = @ + 1]
             /\ sent' = [sent EXCEPT ![j] =
                           [to |-> r,
                            phase |-> IF row[j].remote = r THEN "follow" ELSE "upload"]]
             /\ UNCHANGED turn
     /\ UNCHANGED <<procVars, outboxVars, feed, uploads, queueVars, rstate, offering, probing,
                    modelVars, setVars, clean, faults>>

(* The upload was taken: from now on the job is followed.                    *)
UploadTaken(j) ==
  /\ Idle
  /\ sent[j].phase = "upload"
  /\ row' = SetRemote(row, j, sent[j].to)
  /\ sent' = [sent EXCEPT ![j].phase = "follow"]
  /\ UNCHANGED <<procVars, outboxVars, feed, uploads, queueVars, held, rstate, offering, inFlight,
                 probing, modelVars, setVars, turnVars, faults>>

(* Mutant: the remote's place is given back only when the job ended there.   *)
UnsentHeld(j) ==
  /\ sent' = [sent EXCEPT ![j] = NotSent]
  /\ inFlight' = IF sent[j].phase = "abandoned" THEN inFlight
                 ELSE [inFlight EXCEPT ![sent[j].to] = IF @ > 0 THEN @ - 1 ELSE 0]
  /\ turn' = "dispatch"

(* What every end of runRemote does: sent, the remote's count, dispatch and  *)
(* pump.                                                                     *)
Unsent(j) ==
  /\ sent' = [sent EXCEPT ![j] = NotSent]
  /\ inFlight' = [inFlight EXCEPT ![sent[j].to] = IF @ > 0 THEN @ - 1 ELSE 0]
  /\ turn' = "dispatch"

(* The remote says how the job ended, and its end is this job's.             *)
RemoteEnds(j, status) ==
  /\ Idle
  /\ sent[j].phase = "follow"
  /\ Conclude(row, {j}, status)
  /\ Unsent(j)
  /\ UNCHANGED <<up, crashes, uploads, slots, lane, held, rstate, offering, probing, modelVars,
                 setVars, faults>>

Fault ==
  /\ Idle /\ faults < MaxFaults
  /\ faults' = faults + 1
  /\ UNCHANGED <<up, crashes, uploads, slots, lane, offering, modelVars, setVars>>

(* No answer, 5xx, or a refused key: the remote is down until its next probe *)
(* and the job is back in the queue.                                         *)
RequestFails(j) ==
  /\ Fault
  /\ j \in OnRemotes
  /\ rstate' = [rstate EXCEPT ![sent[j].to] = "down"]
  /\ row' = Requeued(row, {j})
  /\ Unsent(j)
  /\ NothingConcluded
  /\ UNCHANGED <<held, probing>>

(* The remote no longer has the job.                                         *)
JobLost(j) ==
  /\ Fault
  /\ sent[j].phase = "follow"
  /\ row' = Requeued(SetRemote(row, j, Nowhere), {j})
  /\ Unsent(j)
  /\ NothingConcluded
  /\ UNCHANGED <<held, rstate, probing>>

(* 409: the remote no longer offers it.  It is held and every remote probed. *)
TurnedAway(j) ==
  /\ Fault
  /\ sent[j].phase = "upload"
  /\ row' = Requeued(SetRemote(row, j, Nowhere), {j})
  /\ held' = [held EXCEPT ![j] = "waiting"]
  /\ probing' = RemoteSet
  /\ Unsent(j)
  /\ NothingConcluded
  /\ UNCHANGED rstate

(* Any other refusal: the job fails when only a remote can run it, and runs  *)
(* here from now on otherwise.                                               *)
Rejected(j) ==
  /\ Fault
  /\ j \in OnRemotes
  /\ IF row[j].route = "remote" \/ ~engine
     THEN Conclude(SetRemote(row, j, Nowhere), {j}, "failed")
     ELSE /\ row' = Requeued(SetRoute(SetRemote(row, j, Nowhere), j), {j})
          /\ NothingConcluded
  /\ Unsent(j)
  /\ UNCHANGED <<held, rstate, probing>>

(* The aborted request of a deleted job ends.                                *)
Abandoned(j) ==
  /\ Idle
  /\ sent[j].phase = "abandoned"
  /\ Unsent(j)
  /\ UNCHANGED <<procVars, outboxVars, storeVars, queueVars, held, rstate, offering, probing,
                 modelVars, setVars, clean, faults>>

ProbeStarts(r) ==
  /\ Idle
  /\ r \notin probing
  /\ probing' = probing \cup {r}
  /\ UNCHANGED <<procVars, outboxVars, storeVars, queueVars, sent, held, rstate, offering,
                 inFlight, modelVars, setVars, turnVars, faults>>

(* Mutant: a probe's answer is compared with what was known when it began, so *)
(* a request that failed meanwhile hides that the remote is up.              *)
ChangedSince(r, found) == rstate[r] \notin {found, "down"}

(* probe: what it found is compared with what is known when it ends.         *)
Changed(r, found) == rstate[r] # found

(* probe and onChange: the queue is told of a change.                        *)
ProbeEnds(r, found) ==
  LET states == [rstate EXCEPT ![r] = found]
      offers == IF found = "down" THEN offering
                ELSE IF found = "empty" THEN offering \ {r} ELSE offering \cup {r}
  IN /\ Idle
     /\ r \in probing
     /\ probing' = probing \ {r}
     /\ rstate' = states
     /\ offering' = offers
     /\ IF Changed(r, found)
        THEN /\ Conclude(row, Stranded(row, engine, states, offers), "failed")
             /\ turn' = "dispatch"
        ELSE UNCHANGED <<row, turn>> /\ NothingConcluded
     /\ UNCHANGED <<up, crashes, uploads, slots, lane, sent, held, inFlight, modelVars, setVars,
                    faults>>

(* The time a job was turned away for is over; nothing is told of it.        *)
HoldLapses(j) ==
  /\ held[j] = "waiting"
  /\ held' = [held EXCEPT ![j] = "lapsed"]
  /\ Idle
  /\ UNCHANGED <<procVars, outboxVars, storeVars, queueVars, sent, rstate, offering, inFlight,
                 probing, modelVars, setVars, turnVars, faults>>

(* reroute: server.remotes_overflow was saved.                               *)
Reroute ==
  /\ Idle
  /\ overflow' \in Overflows \ {overflow}
  /\ Conclude(row, Stranded(row, engine, rstate, offering), "failed")
  /\ turn' = "dispatch"
  /\ UNCHANGED <<up, crashes, uploads, slots, lane, remoteVars, modelVars, engine, faults>>

-----------------------------------------------------------------------------
Clients ==
  \/ \E kind \in Kinds : Submit(kind)
  \/ \E j \in Jobs : Delete(j) \/ Sweep(j)
  \/ Reroute

Here ==
  \/ \E j \in Jobs, status \in Over, loads \in BOOLEAN : RunEnds(j, status, loads)
  \/ \E i \in Places : WorkerReleased(i)
  \/ \E m \in Models : ModelGoes(m) \/ \E ok \in BOOLEAN : DownloadEnds(m, ok)

There ==
  \/ \E j \in Jobs :
       \/ UploadTaken(j) \/ RequestFails(j) \/ JobLost(j) \/ TurnedAway(j)
       \/ Rejected(j) \/ Abandoned(j) \/ HoldLapses(j)
       \/ \E status \in Over : RemoteEnds(j, status)
  \/ \E r \in RemoteSet :
       ProbeStarts(r) \/ \E found \in RemoteStates \ {"unknown"} : ProbeEnds(r, found)

Delivering ==
  /\ Idle
  /\ \/ TimerFires
     \/ \E j \in Jobs :
          Due(j) \/ \E n \in trying[j], answer \in Answers : Answer(j, n, answer)
  /\ UNCHANGED <<storeVars, queueVars, remoteVars, modelVars, setVars, turnVars, faults>>

KeyRevoked ==
  /\ Idle
  /\ Revoke
  /\ UNCHANGED <<storeVars, queueVars, remoteVars, modelVars, setVars, turnVars, faults>>

StartSweep == \E last \in {0} \cup Jobs : SweepAtStart(last)

Next == Start \/ StartSweep \/ Crash \/ CleanUp \/ DispatchStep \/ PumpStep
        \/ Clients \/ Here \/ There \/ Delivering \/ KeyRevoked

Spec == Init /\ [][Next]_vars

(* A step under way on the thread goes on, and a server that died is started *)
(* again.                                                                    *)
Thread == Start \/ StartSweep \/ CleanUp \/ DispatchStep \/ PumpStep

(* What the service waits for: a Worker, a download, a remote's answer (each *)
(* request has a timeout and runRemote asks again), the end of a hold.       *)
Awaited ==
  \/ \E j \in Jobs :
       \/ UploadTaken(j) \/ Abandoned(j) \/ HoldLapses(j)
       \/ \E status \in Over :
            RemoteEnds(j, status) \/ \E loads \in BOOLEAN : RunEnds(j, status, loads)
  \/ \E m \in Models, ok \in BOOLEAN : DownloadEnds(m, ok)

(* The thread takes every event that waits for it; the probes go on, and a   *)
(* remote that is probed over and over is found up over and over.  Nothing   *)
(* is assumed of the clients.                                                *)
Fairness ==
  /\ WF_vars(Thread)
  /\ SF_vars(Awaited) /\ SF_vars(Delivering)
  /\ \A r \in RemoteSet : SF_vars(ProbeStarts(r)) /\ SF_vars(ProbeEnds(r, "up"))

FairSpec == Spec /\ Fairness

-----------------------------------------------------------------------------
(* Every running job is run by exactly one Worker or remote, and only those  *)
(* are: a delete, a crash, a remote that goes away or an answer that comes   *)
(* late leaves no job running that nothing runs, which would hold its place  *)
(* for good, and none running twice.  A remote's count is the requests that  *)
(* are out (jobs.ts:1526-1543, 1784-1802, 1902-1904).                        *)
HeldOnce ==
  up =>
    /\ Running = InSlots \cup lane \cup OnRemotes
    /\ InSlots \cap lane = {} /\ (InSlots \cup lane) \cap OnRemotes = {}
    /\ \A i, k \in Places :
         slots[i].job = slots[k].job /\ slots[i].job # NoJob => i = k
    /\ \A r \in RemoteSet : inFlight[r] = Cardinality(SentTo(r))

(* Whenever the thread is idle, no job waits that could run: not for a free  *)
(* Worker of the queue or the lane, nor for a remote with room, except a job *)
(* whose time to be held is over.  What the first ones still need is being   *)
(* downloaded.  So no path to idle forgets to dispatch and to pump           *)
(* (jobs.ts:574-602, 1172-1205, 1546-1555, 1902-1906).                       *)
WorkConserving ==
  Idle =>
    /\ LaneHasRoom => LaneReady = {} /\ Missing(ForLane) \subseteq fetching
    /\ QueueHasRoom => QueueReady = {} /\ Missing(ForQueue) \subseteq fetching
    /\ \A j \in Sendable : held[j] = "lapsed"

(* A job that can run does, in one place: no place is lost and no wake-up,   *)
(* whichever of a remote's answer, its probe and a delete comes first.       *)
Placed == HeldOnce /\ WorkConserving

(* Two models on Metal never run together, whichever Workers of the queue    *)
(* and the lane free themselves in which order (jobs.ts:1436-1448).          *)
MetalAlone ==
  Cardinality({j \in InSlots \cup lane : row[j].kind.model \in Metal}) <= 1

(* A job this server was running when it died is run again, but one that ran *)
(* at MAX_JOB_STARTS deaths never is: a job that waits, or is out on a       *)
(* remote, has a start left (jobs.ts:606-617).                               *)
RestartsBounded ==
  \A j \in Jobs : up /\ j \in Queued \cup OnRemotes => row[j].starts < MaxStarts

(* The upload of a job that is open is on disk whatever crashes, and once    *)
(* the files are tidied no other upload is, but what a job keeps             *)
(* (jobs.ts:618-631, 1196-1200, 1711).                                       *)
UploadsKept ==
  /\ Named(row) \subseteq uploads
  /\ up /\ Tidy => uploads = Named(row)

(* With no engine, no job waits that nothing will ever run (jobs.ts:1757).   *)
NoneStranded == Idle => Stranded(row, engine, rstate, offering) = {}

(* The jobs as JobLife has them.                                             *)
LifeOf ==
  [j \in Jobs |->
     [state |-> IF row[j].status \in Open THEN "open" ELSE row[j].status,
      tells |-> IF j \in Held(row) THEN row[j].kind.tells ELSE "nothing",
      said |-> feed[j],
      delivery |-> outbox[j].state # "none"]]

Life == INSTANCE JobLife WITH life <- LifeOf

(* The service keeps JobLife's promise: each job ends once, and its end, the *)
(* event and the delivery are one step, through crashes, deletes and remotes *)
(* (store.ts:703-728, 737-771).                                              *)
LifeSpec == Life!Spec

(* Every job that is submitted ends or is deleted, unless a remote turned it *)
(* away (jobs.ts:605-642, 1546-1555, 1902-1906).                             *)
EveryJobEnds ==
  \A j \in Jobs : row[j].status \in Open ~> (row[j].status \notin Open \/ held[j] = "lapsed")

(* A job a remote turned away is asked for again after its next probe        *)
(* (jobs.ts:1882).                                                           *)
HeldAskedAgain ==
  \A j \in Jobs : held[j] = "lapsed" ~> held[j] # "lapsed"
=============================================================================
