# akou in TLA+

akou records calls. A main process (Bun, one JavaScript event loop) drives one capture helper
per *part* of a call, appends everything that happens to an event log per call, and folds that
log to show the call. A server mode runs transcription jobs, on this machine or on remote
servers, and tells its clients of their end. A dictation mode listens while a key is held and puts
the text where the user types. This directory holds TLA+ models of the parts whose order of events
matters, the TLC runs that check them, and TLAPS proofs of their safety for every size. Paths below
are relative to the repository.

## 1. The system

| Component | Source | State | Operations | Interacts with | Model |
|---|---|---|---|---|---|
| Call controller | `src/main/call/call.ts`, `state.ts` | status, current and launching part, restart window, writer and its holders, timers | begin, stop, pause, resume, mute, restart, reopen, helper events, watchdog | spawns helpers, appends to the log | `CallController` |
| Capture helper session | `src/main/capture/helper.ts`, `engine.ts` | child process, stop budget, kill grace | start, stop, kill, exit | controller handlers | in `CallController` |
| Event log, folded state | `src/core/log/fold.ts` | state, parts, mute of a call | one per event type | every reader | `CallLog` |
| Crash recovery | `src/main/call/recovery.ts` | none of its own | close what a crash left open | reads and appends the log | in `CallController` |
| Writer lock | `src/core/log/writer.ts` | lock file, its mtime, files moved aside | acquire, beat, release | other processes through the file system | `WriterLock` |
| Log file, reader | `writer.ts`, `reader.ts` | lines, seq, what is synced; a tail's cursor | create, open, append, sync, close; tail | every process that follows a log | `LogFile` |
| Call manager | `src/main/call/manager.ts` | controllers, index, loads, the folder stage, openings | start, attach, restart, open, controls, move, trash, restore, quit | owns controllers, moves their folders | `CallManager` |
| Ingest and part clock | `capture/ingest.ts`, `core/log/clock.ts` | bounded queue, pauses, gaps | push, pull, pause, convert | controller, recognizer | planned |
| Job queue | `src/main/server/jobs.ts` | Workers, dictation lane, routes, holds | submit, delete, sweep, dispatch, pump, run, conclude, reroute, start | store, remotes, model store, deliverer | `JobQueue` |
| Job store | `src/main/server/store.ts` | jobs, feed, outbox (SQLite), uploads on disk | one transaction each | queue, deliverer | `JobStore` |
| Webhook outbox | `src/main/server/webhooks.ts` | deliveries, tries out, timer | kick, attempt, answers | store | `Outbox` |
| Remotes | `src/main/server/remotes.ts` | health, offers and load of each remote | probe, pick, hold, release, fail | queue | in `JobQueue` |
| Model store | `src/main/server/model-store.ts` | models on disk, downloads | fetch, sweep | queue | what the queue sees, in `JobQueue` |
| Dictation session | `src/main/dictation/session.ts`, `service.ts` and the helper, `native/akou-capture/src/dictate` | session listening, decodes, inserts; key state, microphone, waiting paste | press, release, keys, audio, decode, insert, stop, exit | three pipes between two processes | `Dictation` |
| Sockets, Wyoming | `src/main/server` | streams | | jobs | not modelled |
| Recognizers, final pass | `src/main/asr` | workers | | controller (flush, writer) | only as seen by the controller |
| Query, notes, handoff, vocabulary, API, CLI, MCP, UI | `src/main`, `src/core/vocab` | per request | | | not modelled: no lasting control state |
| Native engines | `native/` | device streams, health rules | | helper messages | seen through their messages |

What is hard here, and what each part must get right:

* **Controller.** A call is driven by a user, a helper that may exit, hang, or go silent at any
  time, four kinds of timer and other parts of the app that hold its log open; each `await`
  lets the others in. It must never say *recording* while nothing captures, never stop the old
  helper before the new one captures, retry but not for ever, keep a pause and a mute through
  restarts, end when asked though helpers hang, and leave a log that says what happened.
* **Log and recovery.** The log outlives the process. After a crash at any point, also during a
  recovery, what is on disk must be a well-formed log and the next start must close it.
* **Writer lock.** Several processes may judge the same abandoned lock; only one may take it.
  In containers a holder's life is known by its heartbeat only.
* **Manager.** Requests of the API, the window and agents overlap. One call may be live, a log
  has one writer, a live call stays within reach of the controls, and a folder does not move
  under somebody who works in it.
* **Log file.** A line may be cut by a full disk, lost or zeroed with the power, or written by a
  newer build. What was synced must stay, numbers must not repeat, and a reader beside the writer
  must get each event once and none that the next open truncates.
* **Job server.** Workers, remotes, downloads, deletes and a restart of the server all end or
  free something the queue waits for. A job must run in one place, and run at all; it runs again
  after a crash but not for ever, its end and its announcement are one, and its upload is there as
  long as it may be needed. Deliveries happen at least once and stop.
* **Dictation.** Audio and messages come over two pipes, several dictations are decoded or
  inserted while the next one listens, and a key names no dictation. None may take another's
  audio, key or send key, and each must end once.

`PROJECT.json` lists the hazards line by line with the properties that look at each.

## 2. Modules

| Module | What it is |
|---|---|
| `CallLog` | the folded view of a log, one operator per event, and `LogSpec`, the contract of a well-formed log |
| `CallController` | controller, helpers, recovery; properties; inductive invariants; fairness |
| `CallInvariant` | the inductive invariant of `CallController` where no ending race is admitted |
| `CallController_proofs`, `CallInvariant_proofs` | theorems about `CallController`: for any races, and without them |
| `MCCall` | `CallController` for TLC, with three claims of the documents that the code does not keep |
| `CallPhases`, `CallLife` | what the manager sees of a call, and how that may change: the abstract specification of `CallController` |
| `CallManager`, `MCManager` | the manager and its concurrent requests, and small sets of them |
| `ManagerInvariant`, `CallManager_proofs` | its inductive invariants, and the theorems about it |
| `WriterLock`, `MCWriterLock` | the lock file, its invariant, and small sets of process starts in two worlds |
| `WriterLock_proofs` | theorems about `WriterLock` |
| `LogFile`, `MCLogFile` | the file of a log, its writer and a reader that follows it; its invariants |
| `LogFile_proofs` | theorems about `LogFile` |
| `Outbox` | the deliveries of the job server and what empties them |
| `JobStore` | the tables of the job server: extends `Outbox` |
| `JobQueue`, `MCJobs` | the job service with its remotes: extends `JobStore`; and small sets of clients |
| `JobLife` | what the server promises of a job: the abstract specification of `JobQueue` |
| `JobInvariant`, `JobQueue_proofs` | the inductive invariants of the three layers, and the theorems about them |
| `Dictation`, `MCDictation` | the app's dictation session and its helper |
| `DictationInvariant` | the inductive invariant of `Dictation` where no press comes in a post-roll |
| `Dictation_proofs`, `DictationInvariant_proofs` | theorems about `Dictation`: with such presses, and without them |

A definition introduced by "Mutant:" belongs to no specification. It is a plausible bug in the
operator after it; put in that operator's place, it breaks the property paired with it in
`PROJECT.json`.

### CallController

*One action is one turn of the event loop*: a handler with everything that runs before the next
I/O event or timer. Three continuations run in the same turn as what they follow, but in code of
another function: a launch that failed returns to `begin`, `reopen` or `replaceHelper`, and a
handler may ask for `autoRestart`. `micro` names the continuation that is due, and every other
action waits for it (`Turn`). The longer waits (`await` of a helper's exit, of the flush) are
state: `stops` holds the sessions being stopped, `closing` what `doStop` or `interrupt` waits
for, and anything may happen meanwhile.

| Variable | In the code |
|---|---|
| `status`, `muted`, `lastPart`, `restarting` | fields of the same name |
| `writer`, `holds` | whether `writer` is not null; `holds` |
| `current`, `launching` | part numbers of `current` and `launching`; `NoPart` for null |
| `before` | the local `before` of `reopen`, `"idle"` for a first start |
| `auto` | length of `autoRestarts` within the window |
| `scope` | `capture.call`: single apps or the whole computer |
| `helper[p]`, `stops[p]` | the child process of a part; the `session.stop` under way and its reason |
| `run` | the flags of the current `PartRun`: call-side health, dead timer, `deadFired`, `stallReported`, what its ingest does |
| `tapping` | parts whose helper was started for single apps and has not reported them gone |
| `lstate`, `lstarted`, `lended`, `lmuted` | the fold of the log on disk; `PartRun.started` and `.ended` are set together with the appends and are read from it |
| `app`, `todo`, `verdict` | the process; the events a recovery still has to append |

Helper processes appear from the spawn until their exit is handled. `"killed"` is a helper that
got SIGKILL: it may exit, or never.

*Abstractions.* Audio, file positions and texts are left out. Time is: a timer that is set may
fire in any order relative to events; the ten-minute window of restarts forgets its oldest entry
at any time (`WindowPasses`); so `restart`'s staleness check (an hour, or forced) admits always.
`onGap` and the one rebuild on `no-buffers` touch nothing modelled. The live recognizer is the
flush budget it gets. A dead call side takes ten seconds of silence, so `dead` never comes in
the stderr chunk of `capturing`; `tapped-apps-exited` may (`Capturing("exited")`).

### CallManager and CallLife

A *request* asks one thing and is answered: a start, a start with `attach`, a restart, a stop (for
every live control), a *hold* (anything that opens a call and takes its writer: a note, a name, a
final pass), a move, the trash, a restore. What runs between two awaits is one action; `pc` says
where a request waits:

| `pc` | Waits for |
|---|---|
| `wait` | `folderStage` to end |
| `go`, `loaded` | nothing: it continues before the next I/O event (`Quiet`) |
| `folder`, `load`, `reindex` | the disk: the new folder, a finished call's log, the log of a restored call |
| `opening`, `attaching` | the start or reopen it asked for, or attached to |
| `ready`, `holding` | it has a controller; it holds the writer |

| Variable | In the code |
|---|---|
| `known`, `loading`, `stage`, `opening` | `controllers`, `loading`, `folderStage`, `opening` |
| `index`, `home`, `trashed` | the index, and where the folders are |
| `ctl` | the `CallController` objects, with the folder each was made for, its writer and its holders; a dropped one lives on in the hands of a request |
| `lock` | who made the lock in a call's folder |

Of a controller only its *phase* is kept. `CallPhases` lists the phases and their changes once;
`CallManager` takes its steps from there, and `CallController` maps its status, `closing` and
`helper` state to a phase (`Phase`) and is checked to implement `CallLife`. So a step of a call
that the manager's model leaves out is one the controller's model does not take.

Two assumptions exclude behaviour. While a call is in an interruption that still waits, no
restart of it arrives and no holder lets go: what happens then is the subject of
`call_restart_race`. And with `MeetStarts` FALSE a restart and a start are not under way
together, for they break `OneLive`, as `manager_two_live` shows with TRUE.

### WriterLock

The contenders are process starts. A start's `id` is random and never repeats, so the start
itself stands for it; its pid may repeat, in sequence on one machine or at once in two
containers. Each action is one system call of `acquireLock`, `lockHeartbeat` or `releaseLock`,
and `pc[p]` is the next one. The private temporary file of `tryCreateLock` is not shared and is
left out: the hard link is the step. The age of the mtime is counted in heartbeats. `Tick` lets
a holder's beat come up to one period late and no later: beats, and the two calls of a release,
are synchronous code on a timer, while 30 s make a lock stale. This is an assumption about the
scheduler that rule 4 of `acquireLock` makes too; a suspended laptop is outside it.

`Worlds` says which machines there are: in the first world one, where every process sees the
others' pids; in the second, containers that are all pid 1, on one volume.

Not modelled: a lock without an id (builds before the id), and `LogWriter.create`, which refuses
an existing lock and takes nothing over.

### LogFile

A line is one element of `file`; `durable` is how many of them the disk has for certain. A power
loss keeps those and any part of the rest, with a cut line or a block of zeros in it. One writer
is open at a time, which is `WriterLock`'s subject. `reader` is `TailCursor` and, for each line
before it, the event handed out for that line, or 0 (`given`). `tail` asks for the size and then
reads, so a poll gets the file up to any point (`Poll`); so far its tests are its only caller.
`kept` is no state of the code: it remembers what a sync covered.

### Outbox, JobStore, JobQueue

One module per layer, each extending the one below: the transactions of the store are operators
on the tables, and the actions of `JobQueue` say when.

| Variable | In the code |
|---|---|
| `row`, `feed`, `outbox`, `uploads` | the tables `jobs`, `events` and `outbox`; the files of uploads |
| `trying`, `timer`, `owed` | `inFlight` of the deliverer, its timer, a `kick()` that is due |
| `slots`, `lane`, `passed` | `slots`: the Workers by place with the model each holds; the lane's jobs; `passedOver` |
| `sent`, `held`, `inFlight` | `runRemote` of a job; `heldUntil`; the requests counted by `hold` and `release` |
| `rstate`, `offering`, `probing` | what `Remotes` knows of each remote |
| `onDisk`, `fetching` | the models |
| `engine`, `overflow` | what `noEngine()` says, `server.remotes_overflow` |
| `turn`, `clean` | the loop of `dispatch` or `pump` that is under way; jobs whose transaction is done and whose files and Worker are not |

The server is one thread. A handler is one action up to its next `await`; the loops of `dispatch`
and `pump` take one job a step and nothing but a crash comes in between (`turn`), and the same
holds from a transaction to the work on files after it (`CleanUp`). So a crash can fall between
any transaction and what follows it, which is what the restart has to repair. A request to a
remote ends in every way the code tells apart: answered, refused, turned away with 409, lost, not
reached, or abandoned because the job was deleted. Time is abstract: a hold, a due time and a poll
come at any moment. A graceful close is a crash here.

`JobLife` forgets where a job runs. It has four steps - submitted, ended, deleted, and nothing -
and the end of a job, its event and its delivery are one of them. `JobQueue` implements it.

Not modelled: the stall watch (a report only), limits per key, the throughput figures, the model
of a lane Worker that stays loaded, the desktop's `keepIdleWorkers = false`, a Metal Worker that
was told to retire and still exits, changes of `server.remotes`; the sweep's batches are one step.

### Dictation

Three pipes: `lines` (stderr, the helper's messages), `packets` (stdout, its audio), `commands`
(stdin). Each is a queue and any may be read first.

| Variable | In the code |
|---|---|
| `activation`, `live`, `last` | `Activation.state`; the session of `Session.live` and `Mic.session`; `Session.last` |
| `pasting` | `Inserter.tx` |
| `app.cur`, `app.early`, `app.latest` | the fields of the same name; `end` and `stopping` are the session's |
| `app.work`, `app.inserts`, `app.late` | the chain `work` whose length is `decoding`; `inserts`; `lateSends` |
| `app.asked`, `app.state` | `asked` of each session; `state` |
| `app.said`, `app.kept` | the dictation log; the audio that is decoded |

`wrote`, `pressed` and `sends` are no state of the code: they remember what was recorded, pressed
and sent, for the properties. A key carries the session it was pressed in only in the model; the
app never looks at it.

Four assumptions about time, each at its action: a message is not read before audio written a key
press earlier (`ReadStarted`), nor the other way round (`ReadPacket`); no packet takes longer than
`AUDIO_DRAIN_MS` (`DrainEnds`); a settle window outlasts a post-roll (`KeysLapse`). The code's own
comment makes the third (`session.ts:528-534`). And with `PressInRoll` FALSE no press comes in the
post-roll of another session. With two dictations that excludes nothing, TRUE gives the same
states; with three it does, see *Disagreements*.

Not modelled: the draft key, hold and toggle, password fields, the draft box's own inserts, fields
that are read back, the key recorder, previews, rebinds; "send it" spoken and the setting that
sends always, which press the send key without Enter. A new helper gets a new session object, so
one life of the helper is modelled.

## 3. Runs

Sizes are distinct states.

| Run | Constants | States | What it asks |
|---|---|---|---|
| `call_safety` | `MaxPart` 4, `Limit` 1, `MaxHolds` 1, `MaxFuel` 2 | 1.82 M | the safety of one call, its log and its recovery; deadlock |
| `call_liveness` | 3, 1, 0, 1 | 95 k | everything that was asked for ends |
| `manager` | four requests, one old call and two new ones, two workspaces | 0.22 M | the manager under any four overlapping requests; deadlock |
| `lock` | four starts of one machine, the last with the first's pid; three starts, all pid 1; two alive at once | 0.65 M | exclusion with pids that can be seen, and by heartbeat |
| `log_file` | six lines, two crashes, one power loss, two errors | 0.98 M | a log through whatever cuts it |
| `jobs_here` | three jobs, two Workers and a lane, two models, two crashes | 2.55 M | the server alone |
| `jobs_there` | two jobs, one Worker, one remote, two faults, one crash | 2.34 M | the server and a remote |
| `jobs_live` | two jobs, one remote, one fault, no model on disk | 0.33 M | every job ends |
| `jobs_told` | two callbacks to one receiver, two tries, one crash, a revoked key | 0.26 M | deliveries |
| `dictation` | two dictations, two packets each, two keys | 0.92 M | the session and its helper |

* `call_safety`: `WriterWhileNeeded` (the log is open whenever the call needs it), `OverIsOver` (a
  call that is over has no helper running that was not at least killed, its log is closed once
  nobody holds it, and no part is open in a finished log), `PauseAndMuteSurvive`,
  `LogTellsStatus` (a reader of the log sees the controller's state), `CapturesWhileTaking`
  (*recording* means something captures or is about to), `FailedRestartsRetried`, `RestartOverlaps`
  (the old helper stops only for a capturing one, and one launch runs at a time),
  `NoTransitionError` (`assertTransition` never throws), and
  `LogSpec`: the controller and the recovery together implement the contract of `CallLog` - part
  numbers only grow, a part ends once and after its start, nothing follows the wrong state - so
  that a reader of the log alone can rely on it. `LifeSpec` is the other contract: the controller
  implements `CallLife`, on which the manager's model rests.
* `call_liveness`: `RequestsEnd`, a stop, an interruption, a start and a restart each end.
* `manager`: `OneLive`; `OneWriter` (also when a request still holds a controller that a trash and
  a restore have replaced); `KnownIsReal` (no live call is out of reach of the controls or off the
  list, no known controller points to a folder that moved). The model ends when
  every request was answered, so the deadlock check says that every one is, whatever waits for
  the stage, a load or an opening.
* `lock`: `MutualExclusion`, and `HolderHasLock` (a holder's lock is in place
  or where somebody moved it, never gone).
* `log_file`: `SyncedStays` (an open truncates nothing that was synced), `SeqsGrow`,
  `TailTellsAll` (a reader gets each event once, and none that is taken back).
* `jobs_here`: `HeldOnce` (what runs is run by one Worker and what a Worker holds runs: no place is
  lost), `WorkConserving` (no job waits beside a Worker that could run it: no wake-up is
  lost), `MetalAlone`, `RestartsBounded`, `UploadsKept`.
* `jobs_there`: `Placed`, the first two of these with a remote, with and without an engine of its
  own; `LifeSpec`, the refinement of `JobLife`.
* `jobs_live`: `EveryJobEnds`. `jobs_told`: `TriesCounted` (one try out at a time, none forgotten
  by a crash), `ClosedStays`, `DeliveryEnds`.
* `dictation`: `AudioIsItsOwn`, `EndsOnce` (with the state shown), `KeysAreTheirs`, `SendsItsOwn`.

### Bounds

`MaxFuel` bounds what could repeat for ever: user restarts, entries leaving the window, crashes.
`Limit` is `autoRestartLimit`, 5 in the code; 1 and 2 show the limit reached and not reached, with
retries of retries. `MaxPart` is never the reason a step is missing: a run uses at most one first
part, `Limit` automatic parts and one part, or one freed place in the window, for each unit of
fuel, so `MaxPart = 1 + Limit + MaxFuel` leaves launches free. Two units of fuel give a crash
during the recovery from a crash, and a crash in a call that was reopened. One holder of the
writer (two users of the log with the call) reaches every combination of who ends first; `holds`
is a counter compared only with zero and one. Four requests let two that race meet what a third
and a fourth have done before: a call loaded, trashed and restored, or started and attached to.
`MaxCalls` 3 lets two starts succeed one after the other beside the old call. The requests are
interchangeable and nothing orders them, so symmetry over them is sound. Three parts suffice for liveness: a first, an
automatic and a user's restart.

Three jobs are one more than the Workers, so one waits while two run; one of two models is on
Metal and the lane takes a third. A start limit of 2 with two crashes reaches it and passes it.
With a remote, two jobs and one request at a time make it busy, and two faults let one failure
follow another. Two tries and a crash show a last try that is out when the server dies. Six lines
hold a synced line, lines only written, a cut one and what an open adds after it. Two dictations
give every overlap of an end, its decode and its insert with a session that listens, two packets
a first and a later one; three dictations were also checked, with `PressInRoll` FALSE, with two
packets and one key (5.4 M states) and with one packet and two keys (5.8 M).

In the runs with `CHECK_DEADLOCK FALSE` the system really may stop: with the fuel spent and no
holder a finished call stays as it is, process starts that are done or dead do nothing, a server
whose jobs are over waits for clients, and so does a log, or a helper that is gone.

### Assumptions that exclude behaviour

* `EndingRaces` is what a run admits while `interrupt()` waits. With `{}` nobody reopens the call
  and no last release of the writer comes in that wait. The runs below show what happens
  otherwise; the safety runs ask whether everything else is right.
* `DieMidway FALSE`: no start dies between moving a lock aside and putting it back.
* `MaxAlive 2`: with three at once exclusion fails (below).
* `again |-> FALSE` in the world of containers: a start does not open the same log a second time.
  With TRUE exclusion fails: `acquireLock` takes the age of a missing file for infinite, so if the
  holder closes between the read and the `stat` and opens again before the rename, the very lock
  that was judged is moved, fresh as it is. Set the field in `AllOne` of `MCWriterLock` to see it.
* `PressInRoll FALSE` and the speed of pipes: see `Dictation` above.
* `Limit`, `MaxCrashes` and the like are bounds, not assumptions: nothing depends on them but size.
  Only `MaxPower 1` is more: for a second power loss see below.

### Disagreements

| Run | The code | What it is measured against |
|---|---|---|
| `call_restart_race` | a restart during an interruption lets the latter end and close the reopened call | `state.ts:14` |
| `manager_two_live` | a restart that loads its call looks for a live call afterwards, but not for a start in its folder stage: two live calls | `manager.ts:150` |

More show in the models and have no run of their own. Where a formula states it, put it in the
place of the properties of the configuration named:

* `RecoveredIsOver` (`MCCall`): if the part left open is not the newest, recovery appends no end
  and the log still reads live (`recovery.ts:11-12`). `CallRestartRace.cfg` with `EndingRaces = {}`,
  `MaxFuel = 2`.
* `DeadIsWatched` (`MCCall`): the 60 s timer of a dead call side is dropped if it fires during a
  pause, and the helper does not repeat the state (`docs/DESIGN.md:215`). The same way.
* `TappedAppsFallBack` (`MCCall`): `tapped-apps-exited` in the stderr chunk of `capturing` is
  stored and not acted on (`docs/DESIGN.md:212`). The same way.
* A last release of the writer during an interruption closes the log before `call.ended`
  (`state.ts:14`): `EndingRaces = {"release"}` and `MaxHolds = 1` in `CallRestartRace.cfg`.
* `WriterIsThere` (`MCManager`): a stop that waits for the recognizer is not busy, so the folder
  moves under the open log and its lock stays behind in it (`call.ts:307`). `Manager.cfg`.
* `AttachedIsTaking` (`MCManager`): a restart refused by a starting call makes the manager forget
  the opening, and an attach is answered too early (`manager.ts:486`). `Manager.cfg`.
* `MutualExclusion` with `MaxAlive = 3` in `Lock.cfg`: a third start makes a lock in the gap
  between rename and link, and two processes hold the log (`writer.ts:5`).
* `MutualExclusion` with `DieMidway = TRUE` in `Lock.cfg`: a start that dies between rename and
  link takes a live holder's lock with it (`writer.ts:5`).
* `HeldAskedAgain` (`JobQueue`): a job turned away with 409 is not asked for again when its hold
  ends; it waits for the next event of another kind (`jobs.ts:1882`). `JobsLive.cfg` with
  `MaxJobs = 1`, `MaxCrashes = 0`. `EveryJobEnds` and `WorkConserving` except such a job.
* `NoneStranded` (`JobQueue`): on a server without an engine a job can be left that no entry may
  run (`jobs.ts:1757`). `JobsThere.cfg` with one job and one fault.
* `AudioIsItsOwn` with `PressInRoll = TRUE` and `MaxSessions = 3` in `Dictation.cfg`: `settled` frees the keys whichever
  dictation it is about (`session.rs:604`), so a press can come in the post-roll of a newer one,
  whose session it overwrites (`mic.rs:223`).
* `TailTellsAll` with `MaxPower = 2` in `LogFile.cfg`: two power losses, or one after a cut line, can
  leave two lines that cannot be read at the end. Each open truncates one; a reader that polled
  before has consumed the other, and when the next open truncates that one its cursor is past the
  end, inside the lines written next (`reader.ts:205-226`).

And some that no property states:

* A holder of a lock that closes while its lock is aside finds nothing to unlink, and the lock that
  is put back afterwards names a live process that closed the log.
* After a power loss the numbers of lines that were not synced are given again, so a client that
  keeps a seq across the restart misses the new events up to it (`writer.ts:346`, `reader.ts:158`).
* After a short write the lines of the last second, written before it, are not synced either
  (`writer.ts:454`).
* A remote can be given a job back on its return beside two others, though `docs/SERVER.md:403`
  says *at most two*. Warm passes are counted for the head of the queue only. A job deleted during
  its upload leaves its copy on the remote (`jobs.ts:1196`). A failed download also fails the jobs
  that wait for a busy remote.
* A delivery's last try is made again after each crash that meets it (`webhooks.ts:333`).
* A dictation whose decode ends after its helper died is put among the inserts of a helper that is
  gone: nothing in the log ever ends it (`session.ts:1166`, `1397`). `EndsOnce` counts it as still
  being inserted.
* A key pressed in a session whose microphone never opened goes to the dictation that is still
  decoded, if there is one (`session.ts:1003`); `KeysAreTheirs` allows for it. `session.stop` names
  no session and stops whichever listens.

## 4. Fairness

`FairSpec` is used for liveness only. `WF(Continue)`: promise continuations run. `SF(Budgets)`:
the start budget of a launch, the stop budget and the kill grace of a helper, and the flush
budget run out, for each is a `setTimeout` that nothing postpones. It is strong because a due
continuation of another turn disables the timer's action for a moment, without postponing it.
Helpers and users owe nothing: no fairness on exits, on `capturing`, on packets or on requests;
so `RequestsEnd` holds with helpers that hang for ever. Its part about restarts needs the bound on
user restarts (a user may restart for ever), not one on automatic ones: that these stop is what it
says.

`JobQueue` has its own `FairSpec`. `WF(Thread)`: the thread goes on, and a server that died is
started again. `SF(Awaited)`, `SF(Delivering)`: a Worker answers or is lost, a download ends, every
request has a timeout, a hold and a due time pass; strong, because any turn of the thread disables
them for a moment. Of the remotes, that a probe is made over and over (`setInterval`,
`remotes.ts:212`) and is answered *up* over and over: a remote comes back. Without that, a job that only
a remote may run waits for ever, as the code means it to. Nothing is assumed of clients.

## 5. Proofs

What is proved holds for every value of the constants - any number of parts, restarts, requests,
calls, process starts, jobs, Workers, remotes, lines, crashes - under the assumptions each module
names (`ASSUME`: the bounds are natural numbers, the placeholders and the words a function may
return in place of a value are no such value) and those in the third column.

| Module | Theorem | States | Assumes |
|---|---|---|---|
| `CallController_proofs` | `TypeCorrect`, `TransitionsLegal` | `TypeOK`; `NoTransitionError` | |
| | `WriterSafe` | `WriterWhileNeeded` | no ending race |
| `CallInvariant_proofs` | `CallInvariance` | the inductive invariant `CallInv` | no ending race |
| | `PartsOverlap`, `CaptureGoesOn`, `RestartsOwed`, `SettingsSurvive`, `LogTrue`, `NothingLeftOver` | the six other invariants of `call_safety` | no ending race |
| | `LogImplemented`, `LifeImplemented` | `LogSpec`, `LifeSpec`: two refinements | no ending race |
| `WriterLock_proofs` | `LockTypeCorrect` | `TypeOK` | |
| | `LockExcludes`, `LockNotLost` | `MutualExclusion`, `HolderHasLock` | `Tame` |
| `LogFile_proofs` | `FileInvariance`, `FileTypeCorrect`, `WhatIsSyncedStays`, `SeqsAreInOrder` | `FileInv`; `TypeOK`, `SyncedStays`, `SeqsGrow` | |
| | `TailInvariance`, `TailToldAll` | `TailInv`; `TailTellsAll` | `MaxPower <= 1` |
| `CallManager_proofs` | `ManagerInvariance`, `ManagerTypeCorrect`, `LogHasOneWriter`, `KnownIsThere` | `ManagerInv`; `TypeOK`, `OneWriter`, `KnownIsReal` | |
| | `OneCallAtATime` | `OneLive` | `MeetStarts = FALSE` |
| `JobQueue_proofs` | `JobInvariance`, `JobTypeCorrect`, `JobsHeldOnce`, `MetalRunsAlone`, `StartsLeft`, `UploadsStay`, `TriesAreCounted` | `JobInv`; `TypeOK`, `HeldOnce`, `MetalAlone`, `RestartsBounded`, `UploadsKept`, `TriesCounted` | |
| | `ClosedForGood`, `JobLifeImplemented` | `ClosedStays`, an action property; `LifeSpec`, a refinement | |
| | `WorkInvariance`, `WorkIsDone`, `JobsPlaced` | `RoutesInv`, `WorkInv`; `WorkConserving`, `Placed` | |
| `Dictation_proofs` | `DictationTypes` | `TypeOK` | |
| `DictationInvariant_proofs` | `DictationInvariance`, `DictationLog`, `DictationAudio`, `DictationSends` | `DictationInv`; `EndsOnce`, `AudioIsItsOwn`, `SendsItsOwn` | `PressInRoll = FALSE` |
| | `DictationKeys` | `KeysAreTheirs`, an action property | `PressInRoll = FALSE` |

The assumptions are those of the runs, and none is there for the proof's sake: with an ending race
`call_restart_race` violates `LogTellsStatus`, with a restart that meets a start
`manager_two_live` violates `OneLive`, and *Disagreements* says how each part of `Tame`, a
second loss of power and a press in the post-roll break the formula they guard.

### The arguments

Each invariant below implies the properties and is preserved by every step; the properties alone
are not. What each conjunct is needed for:

* **Controller, any race: `CoreInv`.** `TypeOK` is not inductive: a reopen that fails sets the
  status to `before`, which is a status only while one is remembered; and `TransitionsLegal` needs
  to know in which status each continuation finds the call. Added are: a process that is down
  holds nothing; a starting call remembers where it came from; a restart runs only while the call
  records or pauses; an end with reason *stop* is written only in status *stopping*.
  `InterruptMatchesStatus` - an interruption that still waits keeps the status *interrupted* - is
  what makes the log open until its end is written. It is false once a restart may come in between,
  hence the assumption of `WriterSafe` and of all that follows.
* **Controller, no ending race: `CallInv`.** Three groups. *Parts*: a launch is of the newest part
  and somebody waits for it; the part being recorded is the newest that started; each helper that
  runs is the launch's, the call's or being stopped, and so is the helper of each part that is open
  in the log (`EachHelperKnown`); why one is being stopped tells which part it may be
  (`StopsHaveReasons`). *End*: only an end that waits leaves helpers being stopped, and while it
  waits the newest part is still to end or the log is where that end may be written
  (`EndWillFit`). This is what makes the append of `call.ended` legal in `LogSpec`. *Log*: the log
  of a call that takes audio has its status, also before the start of the first part, and what a
  recovery still has to append is what is open (`RecoveryFits`), so that the same contract holds
  through a crash of the recovery.
* **Lock: `LockInv`.** Whose lock a start goes on to take never writes again (`Condemned`) is what
  a test cannot show: the judgement is made system calls before the rename. It holds because a
  lock is judged by a pid that is dead or an age that no live holder reaches (`StaleIsGone`), and
  with two alive the other one cannot put a live holder's lock there in between. A moved lock is in
  the hands of one who looks at it (`AsideInHand`).
* **Log file: `FileInv`, `TailInv`.** A writer that may go on ends in a whole line; what was synced
  is in the durable part; no seq is above the writer's. For the tail: the reader's cursor stands
  behind a line that no open takes away, because the one line of zeros that a single loss of power
  leaves is the last or lies before a line that counts (`FewJunk`, `CursorStands`).
* **Manager: `ManagerInv`, `OneLiveInv`.** A request at each of its steps knows something of the
  controllers (`Asked`, `Loads`, `Restored`); a hold is some request's (`HoldsCounted`), and a
  controller's writer has the lock in the call's folder wherever that was moved (`LocksHeld`): two
  writers of a call would have the same lock. `OneLiveInv` adds that no call is live
  while a start makes its folder (`StageAlone`) and that no restart is between its look for a live
  call and its controller beside a start (`Apart`), the one fact the code does not ensure.
  `OneEach` counts the controllers: one for each request, so that the next number is free.
* **Job server: `JobInv`.** Nothing is told of a job before its end (`NotToldYet`), for which the
  end and its event and delivery must be one transaction: this is `JobLifeImplemented`. The number
  of a try that is out is the last counted, and a crash gives a try back (`TriesInv`). The uploads
  on disk are those a row names and those of jobs whose transaction is done and whose files are not
  (`UploadsInv`): so a crash between the two is repaired and nothing else is taken. The request of
  a job that was deleted names no job that could be sent again (`HeldInv`).
* **Job server: `WorkInv`.** `WorkConserving` speaks of an idle thread only. What makes it
  inductive is what each loop leaves to the next: after `dispatch()` nothing is left to send, while
  `pump()` is under way too (`NothingToSend`), and after `pump()` nothing is left to start or to
  fetch (`NothingToStart`). A step that is not followed by a loop lets no job come to wait, frees no
  place and changes no route: that a model which a waiting job here needs is not swept away rests
  on `RoutesInv`, which says that what may start here is never a job for a remote alone
  (`LocalRoute`), since `InUse` leaves those jobs out.
* **Dictation: `DictationInv`.** What waits in one pipe says nothing of the other, so the invariant
  is about what is still to be read. *Lines* (`LinesWait`): starts and ends alternate; a start that
  waits is of a session newer than all the app has, and its end waits too, is still to be written,
  or was lost with the helper (`Ending`). So a session the app listens to is ended, and once
  (`Log`). *Audio*: the pipe holds exactly the packets from `Got(s)`, which was read of a session,
  to `wrote[s]`; whatever of a session is read before its line is kept for it (`ReadInTurn`), and
  nothing of a later session is read while one listens that has packets to come. *Texts*: a text
  that was decoded is out (`Out`) in one place only, as a command or as the paste that waits for
  its receipt, until its send key is pressed (`Texts`); and wherever an Enter has got to by then -
  the line of its key, what was asked of the session, the insert, a command of its own - it was
  pressed in the session or after it (`SendsMeant`). *Keys*: a key's line names no session, so what
  must agree is whom the helper takes it for (`KeyFor`) and whom the app finds (`KeyOwner`). As long
  as a key of a session may come (`KeyComes`), none newer has been logged or listens, and the last
  one still decoding, if there is one, is that session (`KeysFind`).

In `CallManager_proofs`, `JobQueue_proofs` and `DictationInvariant_proofs`, whose steps are many,
each action is first shown to be one of a few kinds of change, said in one operator per kind; the
invariants are then proved of the kinds, and the frame is one lemma.

*Only model-checked*: the liveness properties `RequestsEnd`, `EveryJobEnds` and `DeliveryEnds`,
which rest on fairness and so are out of the prover's reach. Every invariant, every action property
and every refinement that a run checks is proved, under the assumptions of the table.
The invariants `CallInv`, `JobInv`, `RoutesInv`, `WorkInv`, `LockInv`, `FileInv`, `TailInv`, `ManagerInv`, `OneLiveInv` and
`DictationInv` were model-checked on the instances of the runs before they were proved; put them in
the place of a run's properties, in a module that extends the invariant's, to repeat it.

## 6. Plan

1. `CallLog`, `CallController` and the proofs of its types, transitions and writer - done.
2. `WriterLock` - done.
3. `CallManager` over `CallPhases`, and `CallLife` implemented by the controller - done, except
   quitting the app, which stops the live call and refuses what comes later.
4. `Outbox`, `JobStore`, `JobQueue` and `JobLife` - done, for fixed remotes.
5. `LogFile` - done.
6. `Dictation` - done for one life of the helper; next its restarts and the draft box.
7. Pure algorithms: the part clock through pauses and gaps, the bounded queue of the ingest.
8. The supervision of the live recognizer, with the flush the controller waits for.
9. Proofs: every safety property of the runs - done; next those of what the steps above add.

## 7. Not modelled

Decoding and encoding (audio packets, Ogg, Wyoming frames, HTTP), inference and fusion, text
correction, search and prompts, schemas and settings, the command line and the window: they keep
no state whose order of changes matters, or are numerical, or are lists of formats, and their
tests look at them directly. Of the native engines, the device streams and the health rules are seen
through their messages only. `PROJECT.json` says it component by component.
