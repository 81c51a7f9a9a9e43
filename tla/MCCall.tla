------------------------------- MODULE MCCall -------------------------------
EXTENDS CallController

-----------------------------------------------------------------------------
(* What a document says of the program and the code does not do.             *)

(* "A dead state that lasts more than 60 s triggers an automatic restart"    *)
(* (docs/DESIGN.md:215): a recording call whose call side is dead has the    *)
(* 60 s timer running, or it has fired and a restart is under way.           *)
DeadIsWatched ==
  micro = "none" /\ status = "recording" /\ run.health = "dead" /\ current \notin lended =>
    run.timer \/ restarting

(* "The app ... restarts the part as whole-computer capture"                 *)
(* (docs/DESIGN.md:212): a call whose tapped apps are gone is restarting.    *)
TappedAppsFallBack ==
  micro = "none" /\ Taking /\ run.health = "exited" => restarting

(* "Closing what a crash left open" (recovery.ts:2, 11-12): once recovered,  *)
(* the log no longer says the call is live or stopping.                      *)
RecoveredIsOver ==
  app = "up" /\ status = "ended" /\ closing = "none" =>
    lstate \notin {"recording", "paused", "restarting", "stopping"}
=============================================================================
