----------------------------- MODULE CallPhases -----------------------------
(***************************************************************************)
(* What the call manager sees of a call, and how it may change: the        *)
(* statuses of state.ts with what CallController.live and busy() tell.     *)
(***************************************************************************)

(* Nothing runs ("over": a call not begun, ended, failed or interrupted);    *)
(* capture opens; it captures; its helpers are being stopped; the            *)
(* recognizer writes its last lines; an interruption does both.              *)
Phases == {"over", "starting", "taking", "draining", "flushing", "interrupting"}

LivePhases == {"starting", "taking"}

(* What a call does by itself or because its helper does.                    *)
OwnSteps ==
  {<<"starting", "taking">>, <<"starting", "over">>, <<"taking", "interrupting">>,
   <<"draining", "flushing">>, <<"flushing", "over">>, <<"interrupting", "over">>}

Openings == {<<"over", "starting">>}

Stops == LivePhases \X {"draining"}
=============================================================================
