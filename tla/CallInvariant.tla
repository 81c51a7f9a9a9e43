--------------------------- MODULE CallInvariant ---------------------------
(***************************************************************************)
(* The inductive invariant of CallController when nothing reopens a call   *)
(* or lets go of its writer while interrupt() waits (EndingRaces = {}):    *)
(* which helper belongs to what, which parts are open, and where the log   *)
(* stands.  CallInvariant_proofs proves it and what follows from it.       *)
(***************************************************************************)
EXTENDS CallController

Finished == {"ended", "failed", "interrupted"}

-----------------------------------------------------------------------------
(* Parts.                                                                    *)

(* With the process goes all it held but the log.                            *)
DownIsEmpty ==
  app # "up" => /\ helper = NoHelpers /\ stops = NoStops
                /\ current = NoPart /\ launching = NoPart /\ ~writer /\ holds = 0

(* No part that was ever launched has a number above lastPart.               *)
Numbered ==
  app = "up" =>
    /\ \A p \in lstarted \cup lended : p <= lastPart
    /\ \A p \in Parts : p > lastPart => helper[p] = "none" /\ stops[p] = "no"

(* The part being launched is the newest; a launch has one who waits for it. *)
LaunchIsNewest ==
  /\ launching # NoPart <=> (status = "starting" \/ restarting)
  /\ micro = "failed" => launching # NoPart
  /\ launching # NoPart =>
       /\ launching = lastPart /\ launching # current
       /\ launching \notin lstarted \cup lended /\ stops[launching] = "no"
       /\ micro = "failed" <=> helper[launching] # "up"

(* The part being recorded is the newest that started.                       *)
CurrentIsNewest ==
  /\ Taking => current # NoPart
  /\ current # NoPart => current \in lstarted /\ Newest(current)
  /\ Taking /\ current \notin lended => helper[current] = "up" /\ stops[current] = "no"

(* A helper that runs is the launch's, the call's, or being stopped; so is   *)
(* the one of a part that is open in the log, and no other.                  *)
EachHelperKnown ==
  \A p \in Parts :
    /\ helper[p] = "up" =>
         p \notin lended /\ (stops[p] # "no" \/ p = launching \/ (p = current /\ Taking))
    /\ app = "up" /\ p \in lstarted \ lended => stops[p] # "no" \/ (p = current /\ Taking)

(* Why a helper is being stopped.                                            *)
StopsHaveReasons ==
  \A p \in Parts :
    /\ stops[p] # "no" => p \notin lended /\ (stops[p] = "cancelled" <=> p \notin lstarted)
    /\ stops[p] = "restart" => ~Newest(p)
    /\ stops[p] = "stop" => closing = "drain"
    /\ stops[p] = "cancelled" => closing = "drain" /\ status = "stopping" /\ p = lastPart

PartsInv ==
  /\ DownIsEmpty /\ Numbered /\ LaunchIsNewest /\ CurrentIsNewest
  /\ EachHelperKnown /\ StopsHaveReasons

-----------------------------------------------------------------------------
(* What the part being recorded remembers.                                   *)

RunTells ==
  Taking => run.quiet = (status = "paused") /\ run.hush = muted /\ lmuted = muted

RunInv == RunTells /\ FailedRestartsRetried

-----------------------------------------------------------------------------
(* The end of a call.                                                        *)

(* Only an end that waits for its helpers leaves one being stopped.          *)
DrainedUnlessDraining ==
  /\ closing = "drain" <=> closing # "none" /\ ~Drained(stops)
  /\ ~Taking /\ closing # "drain" => Drained(stops)
  /\ closing # "none" => ending # "none" /\ status \in {"stopping", "interrupted"}
  /\ status = "stopping" => closing # "none"

(* While its end is awaited, the newest part is still to end or the log has  *)
(* come to where that end may be written.                                    *)
EndWillFit ==
  closing # "none" =>
    /\ \/ \E p \in Parts : stops[p] # "no" /\ Newest(p)
       \/ lstate \in IF ending = "stop" THEN {"stopping", "failed"}
                     ELSE {"stopping", "restarting", "recording"}
    /\ ending # "stop" => lstate # "failed"

(* A call that is over leaves its log closed when nobody else holds it.      *)
ClosedWhenOver ==
  status \in Finished /\ closing = "none" /\ holds = 0 => ~writer

EndInv == DrainedUnlessDraining /\ EndWillFit /\ ClosedWhenOver

-----------------------------------------------------------------------------
(* The log.                                                                  *)

(* A call that never captured has a log without parts.                       *)
NothingYet ==
  /\ lstate \in {"none", "starting"} => lstarted = {} /\ lended = {}
  /\ status = "starting" /\ before = "idle" => current = NoPart /\ lstate = "starting"
  /\ app = "up" /\ lstate = "none" => status = "idle"
  /\ app = "up" /\ status = "idle" =>
       current = NoPart /\ holds = 0 /\ lstate = IF writer THEN "starting" ELSE "none"

(* A log that says the call is over has no part open, and one that says it   *)
(* is paused has its newest part open.                                       *)
LogAgrees ==
  /\ lstate \in Finished => AllEnded
  /\ lstate = "paused" => \E p \in lstarted \ lended : Newest(p)

(* The log of a call that takes audio, or that ended a way that can be told. *)
LogFollows ==
  /\ Taking /\ current \notin lended => lstate = status
  /\ Taking /\ current \in lended =>
       lstate = "restarting" \/ (lstate = "recording" /\ status = "recording")
  /\ status \in {"failed", "interrupted"} /\ closing = "none" => lstate = status
  /\ status = "starting" /\ before \in {"failed", "interrupted"} => lstate = before

(* What a recovery still has to append fits the log.                         *)
RecoveryFits ==
  app = "recovering" =>
    /\ todo = OpenParts
    /\ verdict # "none" => todo = {}
    /\ verdict = "failed" => lstate = "starting"
    /\ verdict = "interrupted" => lstate \in {"restarting", "recording"}
    /\ verdict = "stop" => lstate = "stopping"
    /\ verdict = "abandoned" => lstate = "interrupted"

LogInv == NothingYet /\ LogAgrees /\ LogFollows /\ RecoveryFits

CallInv == CoreInv /\ WriterInv /\ PartsInv /\ RunInv /\ EndInv /\ LogInv
=============================================================================
