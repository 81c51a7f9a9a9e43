--------------------------- MODULE CallController ---------------------------
(***************************************************************************)
(* One call: CallController (src/main/call/call.ts), the capture helpers   *)
(* it spawns (src/main/capture/helper.ts), the log it writes (CallLog) and *)
(* what the next start of the app does to a log that a crash left open     *)
(* (src/main/call/recovery.ts).                                            *)
(*                                                                         *)
(* The controller runs on one JavaScript event loop, so an action is one   *)
(* turn of that loop: a handler and everything that runs before the next   *)
(* I/O event or timer.  A launch that failed and an automatic restart it   *)
(* asks for run as promise continuations of the same turn; `micro' holds   *)
(* the continuation that runs next, and every other action of the app      *)
(* waits until it is "none".                                               *)
(*                                                                         *)
(* PartRun.started and PartRun.ended are set by the statement that appends *)
(* part.started and part.ended, so lstarted and lended stand for both.     *)
(*                                                                         *)
(* A definition introduced by "Mutant:" is no part of the specification: it *)
(* is a plausible bug in the operator that follows it, and the project     *)
(* checks that a property notices the one put in place of the other.       *)
(***************************************************************************)
EXTENDS CallLog

CONSTANTS
  Limit,      \* autoRestartLimit
  MaxHolds,   \* bound: holders of the writer at once
  MaxFuel,    \* bound: user restarts, window expirations and crashes, together
  EndingRaces \* what the run admits while interrupt() still waits: a subset of
              \* {"release", "restart"}

ASSUME LimitAssumption == Limit \in Nat \ {0}
ASSUME BoundsAssumption == MaxHolds \in Nat /\ MaxFuel \in Nat
ASSUME EndingRacesAssumption == EndingRaces \subseteq {"release", "restart"}

NoPart == 0      \* `current' and `launching' when they are null

VARIABLES
  app,        \* the process: "up", "down", or "recovering" this call's log
  fuel,       \* how much of MaxFuel is left
  status, before, muted, writer, holds, lastPart, current, launching,
  restarting, auto, scope,
  helper,     \* the child process of each part: "none" before its spawn and once its
              \* exit is handled; "killed" stays when nobody waits for that exit
  stops,      \* the session.stop each part waits for, with its reason
  tapping,    \* parts whose helper was launched to tap single apps
  run,        \* what the current PartRun remembers
  micro,      \* the continuation to run before the next turn
  closing,    \* what doStop or interrupt waits for: "none", "drain", "flush"
  ending,     \* the reason of the call.ended they will write
  todo,       \* recovery: open parts still to close
  verdict     \* recovery: the event to append after them

outVars == <<app, fuel, todo, verdict>>
setVars == <<muted, scope, auto>>
wrVars == <<writer, holds>>
launchVars == <<launching, restarting, before, lastPart, tapping>>
helpVars == <<helper, stops>>
endVars == <<closing, ending>>
vars == <<logVars, outVars, status, current, setVars, wrVars, launchVars, helpVars, run,
          micro, endVars>>

Statuses == {"idle", "starting", "recording", "paused", "stopping", "ended",
             "failed", "interrupted"}

(* health is that of the call side; quiet and hush are the part's ingest     *)
(* taking no audio, and taking silence for the mic.                          *)
PartRuns == [health : {"ok", "dead", "exited", "stalled"}, timer : BOOLEAN, fired : BOOLEAN,
             stalled : BOOLEAN, quiet : BOOLEAN, hush : BOOLEAN]

FreshRun == [health |-> "ok", timer |-> FALSE, fired |-> FALSE, stalled |-> FALSE,
             quiet |-> FALSE, hush |-> FALSE]

StatusTypeOK ==
  /\ app \in {"up", "down", "recovering"}
  /\ status \in Statuses
  /\ before \in {"none", "idle", "ended", "interrupted", "failed"}
  /\ micro \in {"none", "failed", "auto"}
  /\ closing \in {"none", "drain", "flush"}
  /\ ending \in {"none", "stop", "interrupted"}

SettingsTypeOK ==
  /\ fuel \in 0..MaxFuel /\ holds \in 0..MaxHolds /\ auto \in 0..Limit
  /\ muted \in BOOLEAN /\ writer \in BOOLEAN /\ restarting \in BOOLEAN
  /\ scope \in {"apps", "system"}

PartTypeOK ==
  /\ lastPart \in 0..MaxPart /\ current \in 0..MaxPart /\ launching \in 0..MaxPart
  /\ helper \in [Parts -> {"none", "up", "killed"}]
  /\ stops \in [Parts -> {"no", "stop", "restart", "cancelled"}]
  /\ tapping \subseteq Parts
  /\ run \in PartRuns

RecoveryTypeOK ==
  /\ todo \subseteq Parts
  /\ verdict \in {"none", "failed", "interrupted", "stop", "abandoned"}

TypeOK == LogTypeOK /\ StatusTypeOK /\ SettingsTypeOK /\ PartTypeOK /\ RecoveryTypeOK

NoHelpers == [p \in Parts |-> "none"]
NoStops == [p \in Parts |-> "no"]

(* A controller that holds nothing: before the call exists, and again after  *)
(* the process died.                                                         *)
Init ==
  /\ LogInit
  /\ app = "up" /\ fuel = MaxFuel
  /\ status = "idle" /\ before = "none" /\ muted = FALSE /\ writer = FALSE
  /\ holds = 0 /\ lastPart = 0 /\ current = NoPart /\ launching = NoPart
  /\ restarting = FALSE /\ auto = 0 /\ scope \in {"apps", "system"}
  /\ helper = NoHelpers /\ stops = NoStops /\ tapping = {} /\ run = FreshRun
  /\ micro = "none" /\ closing = "none" /\ ending = "none"
  /\ todo = {} /\ verdict = "none"

-----------------------------------------------------------------------------
(* Shared parts of the handlers.                                             *)

Turn == app = "up" /\ micro = "none"

Live == status \in {"starting", "recording", "paused"}
Taking == status \in {"recording", "paused"}

Spend == fuel > 0 /\ fuel' = fuel - 1

(* The next part's helper is spawned, or the spawn throws and the launch     *)
(* fails at once.                                                            *)
Launch(spawned) ==
  /\ lastPart < MaxPart
  /\ lastPart' = lastPart + 1
  /\ launching' = lastPart + 1
  /\ helper' = [helper EXCEPT ![lastPart + 1] = IF spawned THEN "up" ELSE "none"]
  /\ tapping' = IF scope = "apps" THEN tapping \cup {lastPart + 1} ELSE tapping
  /\ micro' = IF spawned THEN "none" ELSE "failed"

CloseWriter == writer' = (writer /\ holds > 0)

Drained(s) == \A p \in Parts : s[p] = "no"

(* Mutant: only an exit counts as a helper that does not work.               *)
NeedsRestartExitOnly == current = NoPart \/ current \in lended \/ run.health = "exited"

(* The part being recorded has no working helper.                            *)
NeedsRestart ==
  current = NoPart \/ current \in lended \/ run.stalled \/ run.fired \/ run.health = "exited"

Undead == [run EXCEPT !.timer = FALSE, !.fired = FALSE]

-----------------------------------------------------------------------------
(* Start.                                                                    *)

(* The folder, its log and call.created, off the event loop.                 *)
Create ==
  /\ Turn
  /\ status = "idle" /\ lstate = "none"
  /\ writer' = TRUE
  /\ CallCreated
  /\ UNCHANGED <<outVars, status, current, setVars, holds, launchVars, helpVars, run, micro,
                 endVars>>

Begin(spawned) ==
  /\ Turn
  /\ status = "idle" /\ writer
  /\ status' = "starting"
  /\ before' = "idle"
  /\ Launch(spawned)
  /\ UNCHANGED <<logVars, outVars, current, setVars, wrVars, restarting, stops, run, endVars>>

(* Mutant: the new part does not take over the pause.                        *)
NoPauseToTakeOver == FALSE

PauseToTakeOver == status = "paused"

(* The helper reports `capturing'.  The launch returns in the same turn and  *)
(* the new part becomes the current one; a replaced helper is asked to stop  *)
(* only now.  A health line that came in the same chunk of stderr was        *)
(* handled before the part became the current one: it is stored and nothing  *)
(* else (h, "ok" when there was none; a "dead" verdict takes ten seconds of  *)
(* silence and cannot come with `capturing').                                *)
Capturing(h) ==
  /\ Turn
  /\ launching # NoPart /\ helper[launching] = "up"
  /\ h = "ok" \/ (h = "exited" /\ launching \in tapping)
  /\ PartStarted(launching, PauseToTakeOver, muted)
  /\ status' = IF status = "starting" THEN "recording" ELSE status
  /\ current' = launching
  /\ stops' = IF restarting /\ current # NoPart /\ current \notin lended
              THEN [stops EXCEPT ![current] = "restart"] ELSE stops
  /\ run' = [FreshRun EXCEPT !.health = h, !.quiet = PauseToTakeOver, !.hush = muted]
  /\ tapping' = tapping \cap {launching}
  /\ launching' = NoPart
  /\ restarting' = FALSE
  /\ before' = "none"
  /\ UNCHANGED <<outVars, setVars, wrVars, lastPart, helper, micro, endVars>>

(* The launch fails while its helper is up, which is then left as `after'.   *)
LaunchFails(after) ==
  /\ Turn
  /\ launching # NoPart /\ helper[launching] = "up"
  /\ helper' = [helper EXCEPT ![launching] = after]
  /\ micro' = "failed"
  /\ UNCHANGED <<logVars, outVars, status, current, setVars, wrVars, launchVars, stops, run,
                 endVars>>

(* The helper exits before `capturing'.                                      *)
EarlyExit == LaunchFails("none")

(* Mutant: only a restart has a start budget.                                *)
LaunchTimeoutOfRestart == restarting /\ LaunchFails("killed")

(* The start budget runs out: the helper is killed.                          *)
LaunchTimeout == LaunchFails("killed")

(* A failed launch returns to its caller, which goes on with `next'.         *)
LaunchReturns(next) ==
  /\ micro = "failed"
  /\ launching' = NoPart
  /\ before' = "none"
  /\ tapping' = tapping \ {launching}
  /\ micro' = next
  /\ UNCHANGED <<outVars, current, setVars, holds, lastPart, helpVars, run, endVars>>

(* ... to begin(): the call never captured.                                  *)
BeginFails ==
  /\ status = "starting" /\ before = "idle"
  /\ LaunchReturns("none")
  /\ CallFailed
  /\ status' = "failed"
  /\ CloseWriter
  /\ UNCHANGED restarting

(* Mutant: a reopen that fails is treated like a first start that failed.    *)
BackToFailed == "failed"

BackTo == before

(* ... to reopen(): the call goes back to where it came from.                *)
ReopenFails ==
  /\ status = "starting" /\ before # "idle"
  /\ LaunchReturns("none")
  /\ status' = BackTo
  /\ CloseWriter
  /\ UNCHANGED <<logVars, restarting>>

(* Mutant: a restart that fails is not retried.                              *)
NoRetry == "none"

(* Whoever asked for the restart, one that leaves the call with no working   *)
(* helper is retried.                                                        *)
Retry == IF Taking /\ NeedsRestart THEN "auto" ELSE "none"

(* ... to restartLive().                                                     *)
ReplaceFails ==
  /\ restarting
  /\ LaunchReturns(Retry)
  /\ restarting' = FALSE
  /\ UNCHANGED <<logVars, status, writer>>

-----------------------------------------------------------------------------
(* Ending a call.                                                            *)

(* Mutant: a launch under way is not cancelled.                              *)
StopsCurrentOnly ==
  [p \in Parts |-> IF p = current /\ p \notin lended THEN "stop" ELSE stops[p]]

(* A launch still under way is cancelled, the current part is asked to stop. *)
StopsAtClose ==
  [p \in Parts |-> IF p = launching THEN "cancelled"
                   ELSE IF p = current /\ p \notin lended THEN "stop"
                   ELSE stops[p]]

(* Mutant: the end of the call does not wait for its helpers.                *)
WaitForNobody(s) == "flush"

WaitFor(s) == IF Drained(s) THEN "flush" ELSE "drain"

(* doStop and interrupt share these lines.  The continuation of a cancelled  *)
(* launch returns in the same turn.                                          *)
CloseCall(to, reason) ==
  /\ status' = to
  /\ ending' = reason
  /\ stops' = StopsAtClose
  /\ closing' = WaitFor(StopsAtClose)
  /\ launching' = NoPart
  /\ restarting' = FALSE
  /\ before' = "none"
  /\ micro' = "none"
  /\ UNCHANGED <<logVars, outVars, current, setVars, wrVars, lastPart, tapping, helper, run>>

Stop == Turn /\ Live /\ CloseCall("stopping", "stop")

(* The flush budget ran out or the recognizer wrote its open segments.  The  *)
(* append throws when the writer was closed meanwhile; the status then stays *)
(* what it was.                                                              *)
FlushDone ==
  /\ Turn
  /\ closing = "flush"
  /\ closing' = "none"
  /\ ending' = "none"
  /\ IF writer THEN CallEnded(ending) ELSE UNCHANGED logVars
  /\ status' = IF writer /\ ending = "stop" THEN "ended" ELSE status
  /\ CloseWriter
  /\ UNCHANGED <<outVars, current, setVars, holds, launchVars, helpVars, run, micro>>

-----------------------------------------------------------------------------
(* Automatic restarts.                                                       *)

(* Mutant: the limit is not looked at.                                       *)
NoLimit == TRUE

UnderLimit == auto < Limit

(* Mutant: an automatic restart is not counted.                              *)
NotCounted == auto

Counted == auto + 1

(* Mutant: the old helper is stopped before the new one captures.            *)
ReplaceHelperBreakingFirst(spawned) ==
  /\ restarting' = TRUE
  /\ Launch(spawned)
  /\ stops' = [stops EXCEPT ![current] = "restart"]
  /\ UNCHANGED <<logVars, status, current, muted, scope, wrVars, before, run, endVars>>

(* Make before break: the old helper is left alone until the new captures.   *)
ReplaceHelper(spawned) ==
  /\ restarting' = TRUE
  /\ Launch(spawned)
  /\ UNCHANGED <<logVars, status, current, muted, scope, wrVars, before, stops, run, endVars>>

(* A restart already running retries on its own if it fails.                 *)
AutoSkip ==
  /\ micro = "auto" /\ restarting
  /\ micro' = "none"
  /\ UNCHANGED <<logVars, outVars, status, current, setVars, wrVars, launchVars, helpVars, run,
                 endVars>>

(* Mutant: interrupt() does not look at the status again.                    *)
InterruptAnyStatus ==
  /\ micro = "auto" /\ ~restarting
  /\ ~UnderLimit
  /\ CloseCall("interrupted", "interrupted")

(* The budget of restarts is spent: interrupt().                             *)
Interrupt ==
  /\ micro = "auto" /\ ~restarting
  /\ ~UnderLimit
  /\ Taking
  /\ CloseCall("interrupted", "interrupted")

(* The call is no longer recording: the attempt counts and nothing starts.   *)
AutoTooLate ==
  /\ micro = "auto" /\ ~restarting
  /\ ~Taking
  /\ auto' = IF UnderLimit THEN Counted ELSE auto
  /\ micro' = "none"
  /\ UNCHANGED <<logVars, outVars, status, current, muted, scope, wrVars, launchVars, helpVars,
                 run, endVars>>

AutoRestart(spawned) ==
  /\ micro = "auto" /\ ~restarting
  /\ UnderLimit
  /\ Taking
  /\ auto' = Counted
  /\ ReplaceHelper(spawned)
  /\ UNCHANGED outVars

(* The oldest automatic restart leaves the ten-minute window.                *)
WindowPasses ==
  /\ Turn
  /\ auto > 0
  /\ Spend
  /\ auto' = auto - 1
  /\ UNCHANGED <<logVars, app, todo, verdict, status, current, muted, scope, wrVars, launchVars,
                 helpVars, run, micro, endVars>>

-----------------------------------------------------------------------------
(* The helper and its timers.                                                *)

(* A helper exits on its own while it captures.                              *)
HelperExit ==
  /\ Turn
  /\ current # NoPart /\ helper[current] = "up"
  /\ current \notin lended /\ stops[current] = "no"
  /\ helper' = [helper EXCEPT ![current] = "none"]
  /\ PartEnded(current, "helper-exit")
  /\ run' = Undead
  /\ micro' = IF Taking THEN "auto" ELSE "none"
  /\ UNCHANGED <<outVars, status, current, setVars, wrVars, launchVars, stops, endVars>>

(* A session.stop resolves with its helper `left': the part's end is         *)
(* written, and the wait of a closing call is over with the last of them.    *)
Retired(p, left) ==
  /\ Turn
  /\ stops[p] # "no"
  /\ helper' = [helper EXCEPT ![p] = left]
  /\ stops' = [stops EXCEPT ![p] = "no"]
  /\ PartEnded(p, IF stops[p] = "cancelled" THEN "cancelled"
                  ELSE IF helper[p] = "killed" THEN "killed"
                  ELSE stops[p])
  /\ closing' = IF closing = "drain" THEN WaitFor(stops') ELSE closing
  /\ run' = IF p = current THEN Undead ELSE run
  /\ UNCHANGED <<outVars, status, current, setVars, wrVars, launchVars, micro, ending>>

(* The helper exits after it was asked to stop, in time or once killed.      *)
StopExit(p) == helper[p] \in {"up", "killed"} /\ Retired(p, "none")

(* The stop budget runs out.                                                 *)
StopKill(p) ==
  /\ Turn
  /\ stops[p] # "no"
  /\ helper[p] = "up"
  /\ helper' = [helper EXCEPT ![p] = "killed"]
  /\ UNCHANGED <<logVars, outVars, status, current, setVars, wrVars, launchVars, stops, run,
                 micro, endVars>>

(* Mutant: a killed helper is waited for without a deadline.                 *)
KillGraceAwaitsExit(p) == helper[p] = "none" /\ Retired(p, "none")

(* The kill grace runs out: nothing waits on a helper that will not die.     *)
KillGrace(p) == helper[p] = "killed" /\ Retired(p, "killed")

(* The current part's helper says something while it captures, and nothing   *)
(* but what the part remembers of it changes.                                *)
Heard == current # NoPart /\ helper[current] = "up" /\ current \notin lended

Report(remembered) ==
  /\ Turn /\ Heard
  /\ run' = remembered
  /\ UNCHANGED <<logVars, outVars, status, current, setVars, wrVars, launchVars, helpVars,
                 micro, endVars>>

HealthDead == Report([run EXCEPT !.health = "dead", !.timer = TRUE])

HealthOk == Report([Undead EXCEPT !.health = "ok"])

(* A packet of a part that had been reported as stalled.                     *)
PacketAgain == run.stalled /\ Report([run EXCEPT !.stalled = FALSE])

(* Every tapped app has exited; a helper says so once.  The next part        *)
(* records the whole computer.                                               *)
TappedAppsExited ==
  /\ Turn /\ Heard
  /\ current \in tapping
  /\ run' = [Undead EXCEPT !.health = "exited"]
  /\ tapping' = tapping \ {current}
  /\ scope' = "system"
  /\ micro' = "auto"
  /\ UNCHANGED <<logVars, outVars, status, current, muted, auto, wrVars, launching, restarting,
                 before, lastPart, helpVars, endVars>>

(* The call side was dead for deadRestartMs.                                 *)
DeadTimerFires ==
  LET restart == current # NoPart /\ current \notin lended /\ run.health = "dead"
                 /\ status = "recording"
  IN
  /\ Turn
  /\ run.timer
  /\ run' = [run EXCEPT !.timer = FALSE, !.fired = run.fired \/ restart]
  /\ micro' = IF restart THEN "auto" ELSE "none"
  /\ UNCHANGED <<logVars, outVars, status, current, setVars, wrVars, launchVars, helpVars,
                 endVars>>

(* No packet for stallMs: the watchdog's tick.                               *)
Watchdog ==
  /\ Turn
  /\ status = "recording"
  /\ current # NoPart /\ current \notin lended /\ stops[current] = "no"
  /\ ~run.stalled /\ ~restarting
  /\ run' = [run EXCEPT !.stalled = TRUE, !.health = "stalled"]
  /\ micro' = "auto"
  /\ UNCHANGED <<logVars, outVars, status, current, setVars, wrVars, launchVars, helpVars,
                 endVars>>

-----------------------------------------------------------------------------
(* Controls.                                                                 *)

Pause ==
  /\ Turn
  /\ status = "recording" /\ current # NoPart /\ ~restarting
  /\ run' = [run EXCEPT !.quiet = TRUE]
  /\ Paused
  /\ status' = "paused"
  /\ UNCHANGED <<outVars, current, setVars, wrVars, launchVars, helpVars, micro, endVars>>

Resume ==
  /\ Turn
  /\ status = "paused" /\ current # NoPart
  /\ run' = [run EXCEPT !.quiet = FALSE]
  /\ Resumed
  /\ status' = "recording"
  /\ UNCHANGED <<outVars, current, setVars, wrVars, launchVars, helpVars, micro, endVars>>

Mute(on) ==
  /\ Turn
  /\ Taking /\ current # NoPart
  /\ muted # on
  /\ muted' = on
  /\ run' = [run EXCEPT !.hush = on]
  /\ Mutes(on)
  /\ UNCHANGED <<outVars, status, current, scope, auto, wrVars, launchVars, helpVars, micro,
                 endVars>>

(* Mutant: a restart does not refuse while one runs.                         *)
RestartableTwice == Taking

Restartable == Taking /\ ~restarting

(* POST /calls/{id}/restart of a call that is recording or paused.           *)
RestartLive(spawned) ==
  /\ Turn
  /\ Restartable
  /\ Spend
  /\ ReplaceHelper(spawned)
  /\ UNCHANGED <<app, todo, verdict, auto>>

(* ... of a call that is over (fresh enough, or forced).                     *)
Reopen(spawned) ==
  /\ Turn
  /\ status \in {"ended", "interrupted", "failed"}
  /\ closing = "none" \/ "restart" \in EndingRaces
  /\ Spend
  /\ before' = status
  /\ writer' = TRUE
  /\ status' = "starting"
  /\ Launch(spawned)
  /\ UNCHANGED <<logVars, app, todo, verdict, current, setVars, holds, restarting, stops, run,
                 endVars>>

(* A final pass, or a note or a name written to a call in any state.         *)
HoldWriter ==
  /\ Turn
  /\ status # "idle"
  /\ holds < MaxHolds
  /\ writer' = TRUE
  /\ holds' = holds + 1
  /\ UNCHANGED <<logVars, outVars, status, current, setVars, launchVars, helpVars, run, micro,
                 endVars>>

(* Mutant: the last release closes the log of a call that is stopping.       *)
CallNeedsWriterWhileLive == Live

CallNeedsWriter == Live \/ status = "stopping"

Release ==
  /\ Turn
  /\ holds > 0
  /\ closing = "none" \/ status # "interrupted" \/ holds > 1 \/ "release" \in EndingRaces
  /\ holds' = holds - 1
  /\ writer' = (writer /\ (holds > 1 \/ CallNeedsWriter))
  /\ UNCHANGED <<logVars, outVars, status, current, setVars, launchVars, helpVars, run, micro,
                 endVars>>

-----------------------------------------------------------------------------
(* A crash, and the next start of the app.                                   *)

(* The process dies between two turns, or between two appends of a recovery. *)
(* Its helpers lose their stdin and end; only the log is left.               *)
Crash ==
  /\ app # "down" /\ micro = "none"
  /\ Spend
  /\ app' = "down"
  /\ status' = "idle" /\ before' = "none" /\ muted' = FALSE /\ writer' = FALSE
  /\ holds' = 0 /\ lastPart' = 0 /\ current' = NoPart /\ launching' = NoPart
  /\ restarting' = FALSE /\ auto' = 0
  /\ helper' = NoHelpers /\ stops' = NoStops /\ tapping' = {} /\ run' = FreshRun
  /\ closing' = "none" /\ ending' = "none"
  /\ todo' = {} /\ verdict' = "none"
  /\ UNCHANGED <<logVars, scope, micro>>

(* What recoverCall appends after the open parts, from the view it folded    *)
(* before it wrote anything.  `old' is an interruption older than a day.     *)
VerdictOf(state, old) ==
  IF state = "starting" THEN "failed"
  ELSE IF state \in {"restarting", "recording", "paused"} THEN "interrupted"
  ELSE IF state = "stopping" THEN "stop"
  ELSE IF state = "interrupted" /\ old THEN "abandoned"
  ELSE "none"

OpenParts == lstarted \ lended

(* Recovery moves nothing but the log and its own two variables.             *)
Recovering == UNCHANGED <<fuel, status, current, setVars, wrVars, launchVars, helpVars, run,
                          micro, endVars>>

RecoverStart(old) ==
  /\ app = "down"
  /\ app' = "recovering"
  /\ todo' = OpenParts
  /\ verdict' = VerdictOf(IF OpenParts # {} THEN "crashed" ELSE lstate, old)
  /\ Recovering /\ UNCHANGED logVars

RecoverPart ==
  /\ app = "recovering"
  /\ \E p \in todo :
       /\ \A q \in todo : p <= q
       /\ PartEnded(p, "crashed")
       /\ todo' = todo \ {p}
  /\ Recovering /\ UNCHANGED <<app, verdict>>

RecoverVerdict ==
  /\ app = "recovering"
  /\ todo = {} /\ verdict # "none"
  /\ IF verdict = "failed" THEN CallFailed ELSE CallEnded(verdict)
  /\ verdict' = "none"
  /\ Recovering /\ UNCHANGED <<app, todo>>

IsLast(n, used) == n \in used \cup {0} /\ \A p \in used : p <= n

(* Mutant: a part cancelled before it captured gives its number away again.  *)
LastStarted(n) == IsLast(n, lstarted)

LastLogged(n) == IsLast(n, lstarted \cup lended)

(* The app is up and the call loaded from its log (CallController.load).     *)
Load ==
  /\ app = "recovering"
  /\ todo = {} /\ verdict = "none"
  /\ app' = "up"
  /\ status' = IF lstate = "none" THEN "idle"
               ELSE IF lstate \in {"failed", "interrupted"} THEN lstate ELSE "ended"
  /\ \E n \in 0..MaxPart : LastLogged(n) /\ lastPart' = n
  /\ scope' \in {"apps", "system"}
  /\ UNCHANGED <<logVars, fuel, todo, verdict, current, muted, auto, wrVars, launching,
                 restarting, before, tapping, helpVars, run, micro, endVars>>

-----------------------------------------------------------------------------
Launches == \E spawned \in BOOLEAN : Begin(spawned) \/ RestartLive(spawned) \/ Reopen(spawned)

LaunchEnds == (\E h \in {"ok", "exited"} : Capturing(h)) \/ EarlyExit \/ LaunchTimeout

(* The continuation that runs before the next turn.                          *)
Continue ==
  \/ BeginFails \/ ReopenFails \/ ReplaceFails
  \/ AutoSkip \/ Interrupt \/ AutoTooLate
  \/ \E spawned \in BOOLEAN : AutoRestart(spawned)

Controls == Stop \/ Pause \/ Resume \/ (\E on \in BOOLEAN : Mute(on)) \/ HoldWriter \/ Release

Reports == HealthDead \/ HealthOk \/ TappedAppsExited \/ PacketAgain

Stopping(p) == StopExit(p) \/ StopKill(p) \/ KillGrace(p)

Recovery ==
  (\E old \in BOOLEAN : RecoverStart(old)) \/ RecoverPart \/ RecoverVerdict \/ Load

Next ==
  \/ Create \/ Launches \/ LaunchEnds \/ Continue
  \/ Controls
  \/ HelperExit \/ Reports \/ DeadTimerFires \/ Watchdog \/ WindowPasses
  \/ (\E p \in Parts : Stopping(p))
  \/ FlushDone
  \/ Crash \/ Recovery

Spec == Init /\ [][Next]_vars

(* Promise continuations always run.  A budget that stays set runs out,      *)
(* however many other turns are served before it: its fairness is strong     *)
(* because the continuation of another turn disables it for a moment.        *)
(* Helpers and users owe nothing.                                            *)
Budgets == LaunchTimeout \/ FlushDone \/ \E p \in Parts : StopKill(p) \/ KillGrace(p)

Fairness ==
  /\ WF_vars(Continue)
  /\ SF_vars(Budgets)

FairSpec == Spec /\ Fairness

-----------------------------------------------------------------------------
(* Safety.                                                                   *)

(* While a call starts, records or pauses, and while its end is still being  *)
(* written, its log is open for writing: no release of the writer by another *)
(* part of the app (holdWriter, call.ts:270) and no failed launch closes it  *)
(* under the call.                                                           *)
WriterWhileNeeded == Live \/ status = "stopping" \/ closing # "none" => writer

(* "A call never says recording while nothing captures" (call.ts:25): when   *)
(* no restart is running, a call that records or pauses has a current part   *)
(* that started, has not ended and is not being stopped, and its helper is   *)
(* the one process that captures.                                            *)
CapturesWhileTaking ==
  app = "up" /\ micro = "none" /\ Taking /\ ~restarting =>
    /\ current \in lstarted \ lended
    /\ stops[current] = "no"
    /\ helper[current] = "up"

(* A stall or a dead call side that asked for a restart is not forgotten     *)
(* when the launch it led to fails, times out or meets another restart: as   *)
(* long as it is standing, a restart runs (restartLive, call.ts:704).        *)
FailedRestartsRetried ==
  micro = "none" /\ Taking /\ (current \in lended \/ run.stalled \/ run.fired) => restarting

(* Make before break: a helper is stopped for a restart only once a newer    *)
(* part captures, so audio is never dropped between two parts.               *)
MakeBeforeBreak ==
  \A p \in Parts : stops[p] = "restart" => \E q \in lstarted : q > p

(* A launch and a live controller are one to one: a helper that is starting  *)
(* belongs to the start, reopen or restart that waits for it, and no second  *)
(* one can be under way.                                                     *)
OneLaunch ==
  micro = "none" =>
    /\ (launching # NoPart) = (status = "starting" \/ restarting)
    /\ ~(status = "starting" /\ restarting)
    /\ \A p \in Parts : helper[p] = "up" =>
         p \in {launching, current} \/ stops[p] # "no"

(* A restart overlaps its two helpers and no more: the old one is stopped    *)
(* only when the new one captures, and never do more than these two run that *)
(* were not told to stop (replaceHelper, call.ts:720-744).                   *)
RestartOverlaps == MakeBeforeBreak /\ OneLaunch

(* A paused call takes no audio and a recording one does; a muted call mutes *)
(* the part being recorded, and the log says so - through restarts that end  *)
(* a part and start another in the middle of a pause or a mute.              *)
PauseAndMuteSurvive ==
  micro = "none" /\ Taking =>
    /\ run.quiet = (status = "paused")
    /\ run.hush = muted
    /\ lmuted = muted

(* "The log is the record, this is the controller's working state"           *)
(* (state.ts:15): between turns, the state a reader folds from the log is    *)
(* the one the controller is in.                                             *)
LogTellsStatus ==
  app = "up" /\ micro = "none" =>
    /\ status = "recording" => lstate \in {"recording", "restarting"}
    /\ status = "paused" => lstate \in {"paused", "restarting"}
    /\ status = "failed" => lstate = "failed"
    /\ status = "interrupted" /\ closing = "none" => lstate = "interrupted"

(* An end leaves nothing behind, whatever launch, restart, stop, holder or   *)
(* crash it met.  Once a call is over no helper of it runs that was not at   *)
(* least killed; when nobody holds the writer either, the log is closed,     *)
(* whichever of the two ended last (closeWriter, call.ts:249); and a log     *)
(* that says the call is over has no part open (call.ts:828, recovery.ts:199).*)
OverIsOver ==
  LET over == micro = "none" /\ ~Live /\ status # "stopping" /\ closing = "none"
  IN /\ over => \A p \in Parts : helper[p] # "up" /\ stops[p] = "no"
     /\ over /\ status # "idle" /\ holds = 0 => ~writer
     /\ lstate \in {"ended", "interrupted", "failed"} => AllEnded

-----------------------------------------------------------------------------
(* The call as CallManager sees it (live and busy(), call.ts:217, 309).      *)
Phase ==
  IF app # "up" THEN "gone"
  ELSE IF status = "starting" THEN "starting"
  ELSE IF Taking THEN "taking"
  ELSE IF closing # "none" /\ status = "interrupted" THEN "interrupting"
  ELSE IF closing = "drain" THEN "draining"
  ELSE IF closing = "flush" THEN "flushing"
  ELSE "over"

Life == INSTANCE CallLife WITH phase <- Phase

(* A call lives as the manager relies on: it is reopened only when it is     *)
(* over, a stop waits for its helpers and then for the recognizer, and       *)
(* nothing revives it meanwhile.                                             *)
LifeSpec == Life!Spec

-----------------------------------------------------------------------------
(* The inductive invariants the proofs rest on: what a launch under way says  *)
(* of the status, and who is ending the call.                                *)

DownHoldsNothing == app # "up" => status = "idle" /\ closing = "none" /\ micro = "none"

StartRemembersBefore == status = "starting" => before # "none"

RestartWhileTaking == restarting => Taking

(* What doStop or interrupt waits to write is the end the status announces.  *)
StopMatchesStatus == closing # "none" /\ ending = "stop" => status = "stopping"

InterruptMatchesStatus == closing # "none" /\ ending # "stop" => status = "interrupted"

(* Kept by every step, also by those EndingRaces admits.                     *)
CoreInv ==
  /\ TypeOK
  /\ DownHoldsNothing /\ StartRemembersBefore /\ RestartWhileTaking /\ StopMatchesStatus

(* Kept when it admits none.                                                 *)
WriterInv == InterruptMatchesStatus /\ WriterWhileNeeded

-----------------------------------------------------------------------------
(* Action properties.                                                        *)

Transitions == [
  idle        |-> {"starting"},
  starting    |-> {"recording", "stopping", "failed", "ended", "interrupted"},
  recording   |-> {"paused", "stopping", "interrupted"},
  paused      |-> {"recording", "stopping", "interrupted"},
  stopping    |-> {"ended"},
  ended       |-> {"starting"},
  failed      |-> {"starting"},
  interrupted |-> {"starting", "ended"}]

(* No handler ever throws TransitionError (assertTransition, state.ts:51):   *)
(* every change of status is one the table allows.                           *)
NoTransitionError ==
  [][app = "up" /\ app' = "up" /\ status' # status => status' \in Transitions[status]]_vars

-----------------------------------------------------------------------------
(* Liveness.                                                                 *)

(* Stop and interrupt finish within their budgets even when a helper never   *)
(* exits: what is closing is closed, unless the app dies first.              *)
ClosingEnds == (closing # "none") ~> (closing = "none")

(* A start or a reopen is answered even when its helper hangs.               *)
StartAnswered == (status = "starting") ~> (status # "starting")

(* A restart does not retry for ever: with users and crashes out of the way  *)
(* the call gets a helper that captures, or it is interrupted.               *)
RestartSettles == restarting ~> (~restarting /\ micro = "none")

(* Whatever the controller is asked for ends, though any helper may hang for *)
(* ever: the budgets of call.ts:406, the kill grace of helper.ts:251 and the *)
(* limit of restarts are enough, together.                                   *)
RequestsEnd == ClosingEnds /\ StartAnswered /\ RestartSettles
=============================================================================
