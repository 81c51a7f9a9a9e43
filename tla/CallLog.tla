------------------------------ MODULE CallLog ------------------------------
(***************************************************************************)
(* The log of one call, as every reader of it sees the call: the part of   *)
(* CallView.apply (src/core/log/fold.ts) that moves the call's state, the  *)
(* set of parts that started, the set that ended, and the mute flag.       *)
(*                                                                         *)
(* One operator per event type says what appending that event does to the  *)
(* folded view.  LogSpec is the contract of a well-formed log: which event *)
(* may follow which view.  Nothing in the code checks it when an event is  *)
(* appended; the modules that write the log are shown to keep it.          *)
(***************************************************************************)
EXTENDS Naturals

CONSTANT MaxPart          \* bound: part numbers of one call

ASSUME MaxPartAssumption == MaxPart \in Nat \ {0}

Parts == 1..MaxPart

LogStates == {"none", "starting", "recording", "paused", "restarting", "stopping",
              "ended", "interrupted", "failed", "crashed"}

EndReasons == {"stop", "restart", "helper-exit", "killed", "crashed", "cancelled"}

VARIABLES
  lstate,     \* CallView.state; "none" while the log has no call.created
  lstarted,   \* parts with a part.started
  lended,     \* parts with a part.ended
  lmuted      \* CallView.muted

logVars == <<lstate, lstarted, lended, lmuted>>

LogTypeOK ==
  /\ lstate \in LogStates
  /\ lstarted \subseteq Parts
  /\ lended \subseteq Parts
  /\ lmuted \in BOOLEAN

LogInit ==
  /\ lstate = "none"
  /\ lstarted = {}
  /\ lended = {}
  /\ lmuted = FALSE

-----------------------------------------------------------------------------
(* What one event does to the folded view.                                  *)

CallCreated ==
  /\ lstate' = "starting"
  /\ UNCHANGED <<lstarted, lended, lmuted>>

CallFailed ==
  /\ lstate' = "failed"
  /\ UNCHANGED <<lstarted, lended, lmuted>>

CallEnded(reason) ==
  /\ lstate' = IF reason = "interrupted" THEN "interrupted" ELSE "ended"
  /\ UNCHANGED <<lstarted, lended, lmuted>>

(* part.started, and the mute and the pause at 0 that the writer appends in  *)
(* the same step when the call is muted or paused.                           *)
PartStarted(p, inPause, inMute) ==
  /\ lstarted' = lstarted \cup {p}
  /\ lstate' = IF inPause THEN "paused" ELSE "recording"
  /\ lmuted' = inMute
  /\ UNCHANGED lended

(* A restart is make before break: only the newest part ending moves the     *)
(* call's state.                                                             *)
Newest(p) == \A q \in lstarted : q <= p

StateAfterEnd(p, reason) ==
  IF lstate = "failed" \/ ~Newest(p) THEN lstate
  ELSE IF reason \in {"restart", "helper-exit"} THEN "restarting"
  ELSE IF reason = "crashed" THEN "crashed"
  ELSE "stopping"

PartEnded(p, reason) ==
  /\ lended' = lended \cup {p}
  /\ lstate' = StateAfterEnd(p, reason)
  /\ UNCHANGED <<lstarted, lmuted>>

Paused ==
  /\ lstate' = "paused"
  /\ UNCHANGED <<lstarted, lended, lmuted>>

Resumed ==
  /\ lstate' = "recording"
  /\ UNCHANGED <<lstarted, lended, lmuted>>

Mutes(on) ==
  /\ lmuted' = on
  /\ UNCHANGED <<lstate, lstarted, lended>>

-----------------------------------------------------------------------------
(* The contract.                                                             *)

(* Part numbers only grow.                                                   *)
Fresh(p) == \A q \in lstarted \cup lended : q < p

AllEnded == lstarted \subseteq lended

LogCreate == lstate = "none" /\ CallCreated

(* call.failed is only for a call that never captured.                       *)
LogFail == lstate = "starting" /\ lstarted = {} /\ CallFailed

LogPartStart ==
  /\ lstate # "none"
  /\ \E p \in Parts, inPause, inMute \in BOOLEAN :
       Fresh(p) /\ PartStarted(p, inPause, inMute)

(* A part ends once, and only after it started; a part cancelled before it   *)
(* captured ends without having started.                                     *)
LogPartEnd ==
  \E p \in Parts, reason \in EndReasons :
    /\ p \notin lended
    /\ p \in lstarted \/ (reason = "cancelled" /\ Newest(p))
    /\ PartEnded(p, reason)

LogPause == lstate = "recording" /\ Paused

LogResume == lstate \in {"paused", "restarting"} /\ Resumed

LogMute ==
  /\ lstate \in {"recording", "paused", "restarting"}
  /\ Mutes(~lmuted)

(* The end of a call is the last word about its audio: every part that       *)
(* started has ended before it.  A restart of a failed call that is stopped   *)
(* before it captures ends a log that still says failed.                     *)
LogEnd ==
  /\ AllEnded
  /\ \/ lstate \in {"stopping", "failed"} /\ CallEnded("stop")
     \/ lstate \in {"stopping", "restarting", "recording"} /\ CallEnded("interrupted")
     \/ lstate = "interrupted" /\ CallEnded("abandoned")

LogNext ==
  \/ LogCreate \/ LogFail \/ LogPartStart \/ LogPartEnd
  \/ LogPause \/ LogResume \/ LogMute \/ LogEnd

LogSpec == LogInit /\ [][LogNext]_logVars
=============================================================================
